---- MODULE Spec2Model ----
(***************************************************************************)
(* Model of the retrieval-augmented conversation orchestrator:             *)
(*   - ChatService (apps/api/src/modules/chat/chat.service.ts) and the     *)
(*     streaming endpoint of ChatController, over a document store and     *)
(*     the in-memory conversationCache;                                    *)
(*   - AiService.response with withRateLimitAndRetry and the Bottleneck    *)
(*     limiter (ai.service.ts, ai.rate-limit), and AiService.stream;       *)
(*   - KnowledgeService: cosineSimilarity, searchSimilar, splitIntoChunks, *)
(*     indexCourseContent and deleteCourseChunks over the chunk store.     *)
(* Every await of the code is a step boundary: one action is the effect of *)
(* the awaited call together with the synchronous code that follows it.    *)
(***************************************************************************)
EXTENDS Integers, Sequences, FiniteSets, TLC

VARIABLES
    convs,       \* conversation collection: id -> document
    messages,    \* chat-message collection, in creation order
    cache,       \* ChatService.conversationCache: id -> array reference
    heap,        \* the arrays the cache references: reference -> contents
    nextConv,    \* next conversation _id
    nextMsg,     \* next message _id
    nextRef,     \* next array to be allocated
    op,          \* the request each client process has in flight
    opCount,     \* requests started so far
    purged,      \* conversations whose messages a deleteHistory has removed
    faults,      \* failures of a collaborator (store, generation) so far
    warned,      \* requests for which 'Error searching RAG context' was logged
    gone,        \* stream requests whose HTTP client has disconnected
    configured,  \* OPENAI_API_KEY is set
    gcall,       \* generate calls (AiService.response) under observation
    queue,       \* the limiter's queue of waiting jobs (0: an unobserved caller)
    bgRunning,   \* limiter slots held by jobs of unobserved callers
    scall,       \* streaming generate calls (AiService.stream) under observation
    ph,          \* a degraded-mode call of AiService.stream (no client configured)
    lib,         \* a call of a KnowledgeService / ChatService query: arguments, result
    chunkStore,  \* the knowledge-chunk collection
    ix,          \* the indexCourseContent run / deleteCourseChunks call in progress
    ov,          \* indexCourseContent runs that overlap in time: run -> its progress
    bo,          \* one job of withRateLimitAndRetry with the waits of its backoff
    web          \* one request made through the web app's apiClient

chatVars == <<convs, messages, cache, heap, nextConv, nextMsg, nextRef, op, opCount, purged,
              faults, warned, gone>>
genVars == <<configured, gcall, queue, bgRunning, scall>>
kbVars == <<chunkStore, ix>>
webVars == <<bo, web>>
libVars == <<ph, lib, kbVars, ov, webVars>>
vars == <<convs, messages, cache, heap, nextConv, nextMsg, nextRef, op, opCount,
          purged, faults, warned, gone, configured, gcall, queue, bgRunning, scall, ph, lib,
          chunkStore, ix, ov, bo, web>>

----------------------------------------------------------------------------
(* Bounds of the model *)

MaxOps == 2
MaxTokens == 2
MaxFaults == 1
NumCalls == 2

Procs == {"p1", "p2"}
\* every request creates at most one conversation and allocates at most one array
ConvIds == 1..(MaxOps + 1)
Refs == 1..(MaxOps + 1)
Students == {"s1", "s2"}
\* the students a client process sends requests for
StudentsOf(p) == IF p = "p1" THEN {"s1"} ELSE Students
Texts == {"Hola"}
Contexts == {"none", "ctx"}

NoConv == 0
NoRef == 0
NoMsg == 0

----------------------------------------------------------------------------
(* Documents and values *)

NoDoc == [exists |-> FALSE, student |-> "s1", isActive |-> FALSE, messageCount |-> 0]

\* createConversation: isActive true, messageCount defaults to 0
NewConversationDoc(s) ==
    [exists |-> TRUE, student |-> s, isActive |-> TRUE, messageCount |-> 0]

Turn(r, c) == [role |-> r, content |-> c]

MessageDoc(i, c, r, txt, o) ==
    [id |-> i, conv |-> c, role |-> r, content |-> txt, op |-> o]

\* startNewConversation, lines 101-108: empty, or one system turn
SeedHistory(ctxt) == IF ctxt = "none" THEN <<>> ELSE <<Turn("system", <<ctxt>>)>>

Frame(t, v) == [type |-> t, value |-> v]

IdleOp ==
    [kind |-> "idle", pc |-> "idle", id |-> 0, student |-> "s1", message |-> "Hola",
     convArg |-> NoConv, context |-> "none", conv |-> NoConv, created |-> 0,
     hist |-> NoRef, ctx |-> "none", full |-> <<>>, frames |-> <<>>, ended |-> FALSE,
     outcome |-> "none", userMsg |-> NoMsg, asstMsg |-> NoMsg, delta |-> 0,
     deleted |-> 0]

RECURSIVE Take(_, _)
Take(s, n) == IF n = 0 \/ s = <<>> THEN <<>> ELSE <<Head(s)>> \o Take(Tail(s), n - 1)

RECURSIVE MapTurns(_)
MapTurns(s) ==
    IF s = <<>> THEN <<>>
    ELSE <<Turn(Head(s).role, Head(s).content)>> \o MapTurns(Tail(s))

HistoryLimit == 20

MessagesOf(c) == SelectSeq(messages, LAMBDA m : m.conv = c)

\* find({conversationId}).sort({createdAt: 1}).limit(20), mapped to role/content
LoadWindow(c) == MapTurns(Take(MessagesOf(c), HistoryLimit))

\* findById: null for an undefined id and for an id no document has
FindById(c) == IF c \in ConvIds /\ convs[c].exists THEN c ELSE NoConv

\* findOne({_id, studentId})
FindOwned(c, s) ==
    IF c \in ConvIds /\ convs[c].exists /\ convs[c].student = s THEN c ELSE NoConv

----------------------------------------------------------------------------
\* The service starts with an empty store and an empty cache, or in the state one
\* completed startNewConversation("s1", "ctx") leaves: conversation 1, active, with
\* its seeded history in the cache.
ChatInit(states) ==
    /\ \E started \in states :
         /\ convs = [c \in ConvIds |->
                        IF started /\ c = 1 THEN NewConversationDoc("s1") ELSE NoDoc]
         /\ cache = [c \in ConvIds |-> IF started /\ c = 1 THEN 1 ELSE NoRef]
         /\ heap = [r \in Refs |->
                       IF started /\ r = 1 THEN SeedHistory("ctx") ELSE <<>>]
         /\ nextConv = IF started THEN 2 ELSE 1
         /\ nextRef = IF started THEN 2 ELSE 1
    /\ messages = <<>>
    /\ nextMsg = 1
    /\ op = [p \in Procs |-> IdleOp]
    /\ opCount = 0
    /\ purged = {}
    /\ faults = 0
    /\ warned = {}
    /\ gone = {}

GCalls == 1..NumCalls

\* an unobserved caller's job in the limiter's queue
Anonymous == 0

\* err?.status ?? err?.response?.status of an error that has neither
NoStatus == 0

IdleCall ==
    [pc |-> "idle", attempt |-> 0, calls |-> 0, last |-> "none", result |-> "none",
     dropped |-> FALSE]

\* a streaming call: busy is the number of limiter slots in use when it called the
\* provider
IdleStream ==
    [pc |-> "idle", calls |-> 0, last |-> "none", result |-> "none", busy |-> 0]

GenIdle ==
    /\ gcall = [c \in GCalls |-> IdleCall]
    /\ queue = <<>>
    /\ bgRunning = 0
    /\ scall = [c \in GCalls |-> IdleStream]

\* no degraded-mode stream has been opened
IdlePlaceholder == [pc |-> "idle", words |-> <<>>, out |-> <<>>, raised |-> FALSE]

\* no query is under observation
NoCall == [fn |-> "none", pc |-> "idle"]

\* no indexing run has been started; runs and faults count what has happened so far
NoRun ==
    [pc |-> "idle", runs |-> 0, faults |-> 0, deletes |-> 0,
     courseId |-> "c1", n |-> 0, i |-> 0, status |-> <<>>, processed |-> 0,
     made |-> {}, result |-> [value |-> 0], before |-> {}, after |-> {}, input |-> <<>>]

\* the runs that may overlap
OvRuns == {1, 2}

NoOverlap == [r \in OvRuns |-> NoRun]

KbIdle ==
    /\ chunkStore = {}
    /\ ix = NoRun
    /\ ov = NoOverlap

\* the retry loop has not been entered
NoBackoff == [pc |-> "idle", attempt |-> 0, calls |-> 0, waits |-> <<>>, last |-> "none"]

\* no request has been made through apiClient
NoRequest ==
    [pc |-> "idle", server |-> "up", url |-> "none", sent |-> 0, last |-> "none",
     result |-> "none"]

WebIdle ==
    /\ bo = NoBackoff
    /\ web = NoRequest

LibIdle ==
    /\ ph = IdlePlaceholder /\ WebIdle
    /\ lib = NoCall
    /\ KbIdle

Init == ChatInit(BOOLEAN) /\ configured = TRUE /\ GenIdle /\ LibIdle

\* the generation client on its own: with or without OPENAI_API_KEY
GenInit == ChatInit({FALSE}) /\ configured \in BOOLEAN /\ GenIdle /\ LibIdle

----------------------------------------------------------------------------
(* Shared pieces of ChatService *)

\* a call to a collaborator returns or throws
StorageResults == IF faults < MaxFaults THEN {"ok", "throw"} ELSE {"ok"}

Injected(r) == faults' = IF r = "throw" THEN faults + 1 ELSE faults
GenerationErrors == {"OpenAiRateLimitException", "OpenAiMisconfiguredException",
                     "OpenAiUnavailableException"}
HttpExceptions == GenerationErrors \cup {"InternalServerErrorException"}

\* an id no conversation has
UnknownId == MaxOps + 2

\* the conversationId of a request: none, an id the store has issued, or one it
\* never issues
KnownIds == {NoConv, UnknownId} \cup {c \in ConvIds : c < nextConv}

Free(p) == op[p].pc \in {"idle", "done"}

\* client processes are interchangeable: the first request is p1's, the second p2's
MayBegin(p) == (opCount = 0 => p = "p1") /\ (opCount = 1 => p = "p2")

Begin(p, k, start, s, m, cid, ctxt) ==
    /\ Free(p)
    /\ MayBegin(p)
    /\ opCount < MaxOps
    /\ opCount' = opCount + 1
    /\ op' = [op EXCEPT ![p] = [IdleOp EXCEPT !.kind = k, !.pc = start,
                                   !.id = opCount + 1, !.student = s, !.message = m,
                                   !.convArg = cid, !.context = ctxt]]
    /\ UNCHANGED <<convs, messages, cache, heap, nextConv, nextMsg, nextRef, faults, purged, warned, gone>>

\* (mutant) the catch wraps every error, HttpExceptions included
ServiceCatchAll(err) == "InternalServerErrorException"

\* catch of sendMessage / startNewConversation / deleteHistory:
\* an HttpException is rethrown, anything else becomes InternalServerErrorException
ServiceCatch(err) == IF err \in HttpExceptions THEN err ELSE "InternalServerErrorException"

Rejected(p, err) ==
    op' = [op EXCEPT ![p].pc = "done", ![p].outcome = ServiceCatch(err),
                     ![p].ctx = "none", ![p].hist = NoRef]

\* (mutant) the catch ends the response without writing a frame
ControllerCatchSilent(fr, err) == fr

\* the frame the controller's catch writes
ControllerCatch(fr, err) == Append(fr, Frame("error", err))

\* streamResponse threw: the controller writes {error} and ends the response
StreamRejected(p, err) ==
    op' = [op EXCEPT ![p].pc = "done", ![p].outcome = err, ![p].ended = TRUE,
                     ![p].frames = ControllerCatch(op[p].frames, err),
                     ![p].ctx = "none", ![p].hist = NoRef]

\* (mutant) the history is an array the cache already holds, emptied in place
AliasedHistoryRef ==
    IF \E c \in ConvIds : cache[c] # NoRef
    THEN cache[CHOOSE c \in ConvIds : cache[c] # NoRef]
    ELSE nextRef

\* the array startNewConversation installs: const history = [] (a new array)
NewHistoryRef == nextRef

\* the array getConversationHistory installs on a miss: messages.map(...) (a new array)
LoadedHistoryRef == nextRef

Install(c, r, contents) ==
    /\ heap' = [heap EXCEPT ![r] = contents]
    /\ cache' = [cache EXCEPT ![c] = r]
    /\ nextRef' = IF r = nextRef THEN nextRef + 1 ELSE nextRef

\* what follows getConversationHistory in each operation
AfterHistory(k) == IF k = "send" THEN "s_gen" ELSE "t_search"

\* getConversationHistory, lines 293-295: the cache lookup
HistCheck(p) ==
    /\ op[p].pc = "hist_check"
    /\ IF cache[op[p].conv] # NoRef
       THEN op' = [op EXCEPT ![p].hist = cache[op[p].conv],
                             ![p].pc = AfterHistory(op[p].kind)]
       ELSE op' = [op EXCEPT ![p].pc = "hist_load"]
    /\ UNCHANGED <<convs, messages, cache, heap, nextConv, nextMsg, nextRef, opCount, faults, purged, warned, gone>>

\* getConversationHistory, lines 298-312: the load from the store and cache.set
HistLoad(p) ==
    /\ op[p].pc = "hist_load"
    /\ \E r \in StorageResults :
         /\ Injected(r)
         /\ IF r = "throw"
            THEN /\ IF op[p].kind = "send" THEN Rejected(p, "MongoError")
                                           ELSE StreamRejected(p, "MongoError")
                 /\ UNCHANGED <<cache, heap, nextRef>>
            ELSE /\ Install(op[p].conv, LoadedHistoryRef, LoadWindow(op[p].conv))
                 /\ op' = [op EXCEPT ![p].hist = LoadedHistoryRef,
                                     ![p].pc = AfterHistory(op[p].kind)]
    /\ UNCHANGED <<convs, messages, nextConv, nextMsg, opCount, purged, warned, gone>>

----------------------------------------------------------------------------
(* ChatService.sendMessage *)

StartSend(p) ==
    \E s \in StudentsOf(p), m \in Texts, cid \in KnownIds :
        Begin(p, "send", "s_find", s, m, cid, "none")

\* line 38: findById(conversationId)
SendFind(p) ==
    /\ op[p].pc = "s_find"
    /\ \E r \in StorageResults :
         /\ Injected(r)
         /\ IF r = "throw"
            THEN Rejected(p, "MongoError")
            ELSE LET c == FindById(op[p].convArg) IN
                 op' = [op EXCEPT ![p].conv = c,
                                  ![p].pc = IF c = NoConv THEN "s_create" ELSE "s_user"]
    /\ UNCHANGED <<convs, messages, cache, heap, nextConv, nextMsg, nextRef, opCount, purged, warned, gone>>

\* lines 40-42: createConversation(studentId)
SendCreate(p) ==
    /\ op[p].pc = "s_create"
    /\ \E r \in StorageResults :
         /\ Injected(r)
         /\ IF r = "throw"
            THEN /\ Rejected(p, "MongoError")
                 /\ UNCHANGED <<convs, nextConv>>
            ELSE /\ convs' = [convs EXCEPT ![nextConv] = NewConversationDoc(op[p].student)]
                 /\ nextConv' = nextConv + 1
                 /\ op' = [op EXCEPT ![p].conv = nextConv, ![p].created = @ + 1,
                                     ![p].pc = "s_user"]
    /\ UNCHANGED <<messages, cache, heap, nextMsg, nextRef, opCount, purged, warned, gone>>

\* lines 44-48: the user message
SendUser(p) ==
    /\ op[p].pc = "s_user"
    /\ \E r \in StorageResults :
         /\ Injected(r)
         /\ IF r = "throw"
            THEN /\ Rejected(p, "MongoError")
                 /\ UNCHANGED <<messages, nextMsg>>
            ELSE /\ messages' = Append(messages,
                        MessageDoc(nextMsg, op[p].conv, "user", <<op[p].message>>, op[p].id))
                 /\ nextMsg' = nextMsg + 1
                 /\ op' = [op EXCEPT ![p].userMsg = nextMsg, ![p].pc = "s_search"]
    /\ UNCHANGED <<convs, cache, heap, nextConv, nextRef, opCount, purged, warned, gone>>

SearchResults == {"some", "none", "throw"}

\* lines 50-59: searchSimilar; a failure leaves relevantContext empty
RelevantContext(r) == IF r = "some" THEN "some" ELSE "none"

\* (mutant) the failure of the retrieval step ends the operation
AfterSearchFailureRethrow(next) == "done"

\* lines 57-59: the catch of the retrieval step logs a warning and the operation
\* goes on with its next step
AfterSearchFailure(next) == next

\* the step that follows the retrieval step
AfterSearch(r, next) == IF r = "throw" THEN AfterSearchFailure(next) ELSE next

\* logger.warn('Error searching RAG context', error)
Warned(p, r) == warned' = IF r = "throw" THEN warned \cup {op[p].id} ELSE warned

SendSearch(p) ==
    /\ op[p].pc = "s_search"
    /\ \E r \in SearchResults :
         /\ op' = [op EXCEPT ![p].ctx = RelevantContext(r),
                             ![p].pc = AfterSearch(r, "hist_check")]
         /\ Warned(p, r)
    /\ UNCHANGED <<convs, messages, cache, heap, nextConv, nextMsg, nextRef, opCount, faults, purged, gone>>

\* line 63: generateResponseWithRAG
SendGen(p) ==
    /\ op[p].pc = "s_gen"
    /\ \/ /\ op' = [op EXCEPT ![p].full = <<0>>, ![p].pc = "s_asst",
                               ![p].ctx = "none", ![p].hist = NoRef]
          /\ UNCHANGED faults
       \/ /\ faults < MaxFaults
          /\ faults' = faults + 1
          /\ \E e \in GenerationErrors : Rejected(p, e)
    /\ UNCHANGED <<convs, messages, cache, heap, nextConv, nextMsg, nextRef, opCount, purged, warned, gone>>

\* lines 65-73: the assistant message
SendAsst(p) ==
    /\ op[p].pc = "s_asst"
    /\ \E r \in StorageResults :
         /\ Injected(r)
         /\ IF r = "throw"
            THEN /\ Rejected(p, "MongoError")
                 /\ UNCHANGED <<messages, nextMsg>>
            ELSE /\ messages' = Append(messages,
                        MessageDoc(nextMsg, op[p].conv, "assistant", op[p].full, op[p].id))
                 /\ nextMsg' = nextMsg + 1
                 /\ op' = [op EXCEPT ![p].asstMsg = nextMsg, ![p].pc = "s_inc"]
    /\ UNCHANGED <<convs, cache, heap, nextConv, nextRef, opCount, purged, warned, gone>>

\* $inc: { messageCount: 2 }
CountIncrement == 2

\* (mutant) the counter is raised by one per request
IncrementCountByOne(c) ==
    IF convs[c].exists THEN [convs EXCEPT ![c].messageCount = @ + 1] ELSE convs

\* findByIdAndUpdate(id, {$inc}): changes the document if there is one
IncrementCount(c) ==
    IF convs[c].exists
    THEN [convs EXCEPT ![c].messageCount = @ + CountIncrement]
    ELSE convs

\* lines 75-84: the counter update and the result
SendInc(p) ==
    /\ op[p].pc = "s_inc"
    /\ \E r \in StorageResults :
         /\ Injected(r)
         /\ IF r = "throw"
            THEN /\ Rejected(p, "MongoError")
                 /\ UNCHANGED convs
            ELSE /\ convs' = IncrementCount(op[p].conv)
                 /\ op' = [op EXCEPT ![p].pc = "done", ![p].outcome = "ok",
                             ![p].delta = convs'[op[p].conv].messageCount
                                          - convs[op[p].conv].messageCount]
    /\ UNCHANGED <<messages, cache, heap, nextConv, nextMsg, nextRef, opCount, purged, warned, gone>>

----------------------------------------------------------------------------
(* ChatController.streamMessage over ChatService.streamResponse *)

StartStream(p) ==
    \E s \in StudentsOf(p), m \in Texts, cid \in KnownIds :
        Begin(p, "stream", "t_resolve", s, m, cid, "none")

\* res.write of one event of the generator
Written(fr, t, v) == Append(fr, Frame(t, v))

\* lines 226-228 and 234: findById when an id is given, else createConversation
StreamResolve(p) ==
    /\ op[p].pc = "t_resolve"
    /\ \E r \in StorageResults :
         /\ Injected(r)
         /\ IF r = "throw"
            THEN /\ StreamRejected(p, "MongoError")
                 /\ UNCHANGED <<convs, nextConv>>
            ELSE IF op[p].convArg = NoConv
                 THEN /\ convs' = [convs EXCEPT
                                     ![nextConv] = NewConversationDoc(op[p].student)]
                      /\ nextConv' = nextConv + 1
                      /\ op' = [op EXCEPT ![p].conv = nextConv, ![p].created = @ + 1,
                                  ![p].frames = Written(@, "conversationId", nextConv),
                                  ![p].pc = "t_user"]
                 ELSE /\ LET c == FindById(op[p].convArg) IN
                         op' = IF c = NoConv
                               THEN [op EXCEPT ![p].pc = "t_create"]
                               ELSE [op EXCEPT ![p].conv = c,
                                        ![p].frames = Written(@, "conversationId", c),
                                        ![p].pc = "t_user"]
                      /\ UNCHANGED <<convs, nextConv>>
    /\ UNCHANGED <<messages, cache, heap, nextMsg, nextRef, opCount, purged, warned, gone>>

\* lines 230-234: createConversation when the id matched nothing
StreamCreate(p) ==
    /\ op[p].pc = "t_create"
    /\ \E r \in StorageResults :
         /\ Injected(r)
         /\ IF r = "throw"
            THEN /\ StreamRejected(p, "MongoError")
                 /\ UNCHANGED <<convs, nextConv>>
            ELSE /\ convs' = [convs EXCEPT ![nextConv] = NewConversationDoc(op[p].student)]
                 /\ nextConv' = nextConv + 1
                 /\ op' = [op EXCEPT ![p].conv = nextConv, ![p].created = @ + 1,
                             ![p].frames = Written(@, "conversationId", nextConv),
                             ![p].pc = "t_user"]
    /\ UNCHANGED <<messages, cache, heap, nextMsg, nextRef, opCount, purged, warned, gone>>

\* lines 236-240: the user message
StreamUser(p) ==
    /\ op[p].pc = "t_user"
    /\ \E r \in StorageResults :
         /\ Injected(r)
         /\ IF r = "throw"
            THEN /\ StreamRejected(p, "MongoError")
                 /\ UNCHANGED <<messages, nextMsg>>
            ELSE /\ messages' = Append(messages,
                        MessageDoc(nextMsg, op[p].conv, "user", <<op[p].message>>, op[p].id))
                 /\ nextMsg' = nextMsg + 1
                 /\ op' = [op EXCEPT ![p].userMsg = nextMsg, ![p].pc = "hist_check"]
    /\ UNCHANGED <<convs, cache, heap, nextConv, nextRef, opCount, purged, warned, gone>>

\* lines 244-253: searchSimilar; a failure leaves relevantContext empty
StreamSearch(p) ==
    /\ op[p].pc = "t_search"
    /\ \E r \in SearchResults :
         /\ op' = [op EXCEPT ![p].ctx = RelevantContext(r),
                             ![p].pc = AfterSearch(r, "t_tok")]
         /\ Warned(p, r)
    /\ UNCHANGED <<convs, messages, cache, heap, nextConv, nextMsg, nextRef, opCount, faults, purged, gone>>

\* the k-th fragment the generation stream yields
Fragment(k) == k

\* (mutant) the fragment is put in front of the text so far
AccumulateInFront(full, t) == <<t>> \o full

\* line 257: fullContent += token
Accumulate(full, t) == Append(full, t)

\* lines 256-259: one fragment of generateStreamResponseWithRAG
StreamToken(p) ==
    /\ op[p].pc = "t_tok"
    /\ Len(op[p].full) < MaxTokens
    /\ LET t == Fragment(Len(op[p].full) + 1) IN
         op' = [op EXCEPT ![p].full = Accumulate(@, t),
                          ![p].frames = Written(@, "token", t),
                          ![p].ctx = "none", ![p].hist = NoRef]
    /\ UNCHANGED <<convs, messages, cache, heap, nextConv, nextMsg, nextRef, opCount, faults, purged, warned, gone>>

\* (mutant) the raise is swallowed and the partial text is persisted
AfterStreamErrorPersist == "t_asst"

\* where streamResponse goes when the generation stream raises
AfterStreamError == "done"

\* line 256: the generation stream raises
StreamRaise(p) ==
    /\ op[p].pc = "t_tok"
    /\ faults < MaxFaults
    /\ faults' = faults + 1
    /\ op' = [op EXCEPT ![p].pc = AfterStreamError,
                ![p].outcome = "OpenAiUnavailableException", ![p].ended = TRUE,
                ![p].frames = ControllerCatch(@, "OpenAiUnavailableException"),
                ![p].ctx = "none", ![p].hist = NoRef]
    /\ UNCHANGED <<convs, messages, cache, heap, nextConv, nextMsg, nextRef, opCount, purged, warned, gone>>

\* line 256: the generation stream is exhausted
StreamEnd(p) ==
    /\ op[p].pc = "t_tok"
    /\ op' = [op EXCEPT ![p].pc = "t_asst", ![p].ctx = "none", ![p].hist = NoRef]
    /\ UNCHANGED <<convs, messages, cache, heap, nextConv, nextMsg, nextRef, opCount, faults, purged, warned, gone>>

\* lines 261-266: the assistant message
StreamAsst(p) ==
    /\ op[p].pc = "t_asst"
    /\ \E r \in StorageResults :
         /\ Injected(r)
         /\ IF r = "throw"
            THEN /\ StreamRejected(p, "MongoError")
                 /\ UNCHANGED <<messages, nextMsg>>
            ELSE /\ messages' = Append(messages,
                        MessageDoc(nextMsg, op[p].conv, "assistant", op[p].full, op[p].id))
                 /\ nextMsg' = nextMsg + 1
                 /\ op' = [op EXCEPT ![p].asstMsg = nextMsg, ![p].pc = "t_inc"]
    /\ UNCHANGED <<convs, cache, heap, nextConv, nextRef, opCount, purged, warned, gone>>

\* lines 268-273, then res.end(): the counter update and the {done} event
StreamInc(p) ==
    /\ op[p].pc = "t_inc"
    /\ \E r \in StorageResults :
         /\ Injected(r)
         /\ IF r = "throw"
            THEN /\ StreamRejected(p, "MongoError")
                 /\ UNCHANGED convs
            ELSE /\ convs' = IncrementCount(op[p].conv)
                 /\ op' = [op EXCEPT ![p].pc = "done", ![p].outcome = "ok",
                             ![p].ended = TRUE,
                             ![p].frames = Written(@, "done", op[p].asstMsg),
                             ![p].delta = convs'[op[p].conv].messageCount
                                          - convs[op[p].conv].messageCount]
    /\ UNCHANGED <<messages, cache, heap, nextConv, nextMsg, nextRef, opCount, purged, warned, gone>>

----------------------------------------------------------------------------
(* ChatService.startNewConversation *)

StartNew(p) ==
    \E s \in StudentsOf(p), ctxt \in Contexts :
        Begin(p, "start", "n_create", s, "Hola", NoConv, ctxt)

\* lines 97-110: createConversation, then the new history is put in the cache
NewCreate(p) ==
    /\ op[p].pc = "n_create"
    /\ \E r \in StorageResults :
         /\ Injected(r)
         /\ IF r = "throw"
            THEN /\ Rejected(p, "MongoError")
                 /\ UNCHANGED <<convs, nextConv, cache, heap, nextRef>>
            ELSE /\ convs' = [convs EXCEPT ![nextConv] = NewConversationDoc(op[p].student)]
                 /\ nextConv' = nextConv + 1
                 /\ Install(nextConv, NewHistoryRef, SeedHistory(op[p].context))
                 /\ op' = [op EXCEPT ![p].conv = nextConv, ![p].created = @ + 1,
                                     ![p].pc = "n_deact"]
    /\ UNCHANGED <<messages, nextMsg, opCount, purged, warned, gone>>

\* (mutant) the filter lacks _id: {$ne: id}
DeactivateAllOf(s, c) ==
    [d \in ConvIds |->
        IF convs[d].exists /\ convs[d].student = s
        THEN [convs[d] EXCEPT !.isActive = FALSE]
        ELSE convs[d]]

\* updateMany({studentId, _id: {$ne: id}}, {isActive: false})
DeactivateOthers(s, c) ==
    [d \in ConvIds |->
        IF convs[d].exists /\ convs[d].student = s /\ d # c
        THEN [convs[d] EXCEPT !.isActive = FALSE]
        ELSE convs[d]]

\* lines 112-119
NewDeactivate(p) ==
    /\ op[p].pc = "n_deact"
    /\ \E r \in StorageResults :
         /\ Injected(r)
         /\ IF r = "throw"
            THEN /\ Rejected(p, "MongoError")
                 /\ UNCHANGED convs
            ELSE /\ convs' = DeactivateOthers(op[p].student, op[p].conv)
                 /\ op' = [op EXCEPT ![p].pc = "done", ![p].outcome = "ok"]
    /\ UNCHANGED <<messages, cache, heap, nextConv, nextMsg, nextRef, opCount, purged, warned, gone>>

----------------------------------------------------------------------------
(* ChatService.deleteHistory *)

\* the other spelling of an id string: the same 24 hex digits in upper case
UpperCase(c) == 0 - c

\* new Types.ObjectId(string): hex digits are read in either case, and toString()
\* of the result is the lower-case spelling, which is what _id.toString() gives
ObjectId(x) == IF x < 0 THEN 0 - x ELSE x

\* the conversationId path parameter: any well-formed id string
DeleteArgs == LET ids == KnownIds \ {NoConv} IN ids \cup {UpperCase(c) : c \in ids}

\* Map.delete(key): removes the entry stored under exactly that string, if any
CacheDelete(key) == IF key \in ConvIds THEN [cache EXCEPT ![key] = NoRef] ELSE cache

StartDelete(p) ==
    \E s \in StudentsOf(p), cid \in DeleteArgs :
        Begin(p, "delete", "d_find", s, "Hola", cid, "none")

\* lines 198-203: findOne({_id, studentId}); null is returned for no match
DeleteFind(p) ==
    /\ op[p].pc = "d_find"
    /\ \E r \in StorageResults :
         /\ Injected(r)
         /\ IF r = "throw"
            THEN Rejected(p, "MongoError")
            ELSE LET c == FindOwned(ObjectId(op[p].convArg), op[p].student) IN
                 op' = IF c = NoConv
                       THEN [op EXCEPT ![p].pc = "done", ![p].outcome = "null"]
                       ELSE [op EXCEPT ![p].conv = c, ![p].pc = "d_msgs"]
    /\ UNCHANGED <<convs, messages, cache, heap, nextConv, nextMsg, nextRef, opCount, purged, warned, gone>>

\* lines 205-207: deleteMany({conversationId})
DeleteMessages(p) ==
    /\ op[p].pc = "d_msgs"
    /\ \E r \in StorageResults :
         /\ Injected(r)
         /\ IF r = "throw"
            THEN /\ Rejected(p, "MongoError")
                 /\ UNCHANGED <<messages, purged>>
            ELSE /\ messages' = SelectSeq(messages, LAMBDA m : m.conv # op[p].conv)
                 /\ purged' = purged \cup {op[p].conv}
                 /\ op' = [op EXCEPT ![p].deleted = Len(MessagesOf(op[p].conv)),
                                     ![p].pc = "d_conv"]
    /\ UNCHANGED <<convs, cache, heap, nextConv, nextMsg, nextRef, opCount, warned, gone>>

\* lines 209-213: findByIdAndDelete(conversation._id), then
\* conversationCache.delete(conversationId) with the argument as it was given
DeleteConversation(p) ==
    /\ op[p].pc = "d_conv"
    /\ \E r \in StorageResults :
         /\ Injected(r)
         /\ IF r = "throw"
            THEN /\ Rejected(p, "MongoError")
                 /\ UNCHANGED <<convs, cache>>
            ELSE /\ convs' = [convs EXCEPT ![op[p].conv] = NoDoc]
                 /\ cache' = CacheDelete(op[p].convArg)
                 /\ op' = [op EXCEPT ![p].pc = "done", ![p].outcome = "ok"]
    /\ UNCHANGED <<messages, heap, nextConv, nextMsg, nextRef, opCount, purged, warned, gone>>

----------------------------------------------------------------------------
ChatStep(p) ==
    \/ StartSend(p) \/ SendFind(p) \/ SendCreate(p) \/ SendUser(p) \/ SendSearch(p)
    \/ HistCheck(p) \/ HistLoad(p)
    \/ SendGen(p) \/ SendAsst(p) \/ SendInc(p)
    \/ StartStream(p) \/ StreamResolve(p) \/ StreamCreate(p) \/ StreamUser(p)
    \/ StreamSearch(p) \/ StreamToken(p) \/ StreamRaise(p) \/ StreamEnd(p)
    \/ StreamAsst(p) \/ StreamInc(p)
    \/ StartNew(p) \/ NewCreate(p) \/ NewDeactivate(p)
    \/ StartDelete(p) \/ DeleteFind(p) \/ DeleteMessages(p) \/ DeleteConversation(p)

Next == (\E p \in Procs : ChatStep(p)) /\ UNCHANGED <<genVars, libVars>>

Spec == Init /\ [][Next]_vars

----------------------------------------------------------------------------
(* A consumer of ChatService.streamResponse that stops reading *)

\* the generator is suspended: not started yet, at yield {conversationId}
\* (line 234), or at yield {token} (line 258)
Suspended(p) ==
    /\ op[p].kind = "stream"
    /\ \/ op[p].pc = "t_resolve"
       \/ op[p].pc = "t_user"
       \/ op[p].pc = "t_tok" /\ Len(op[p].full) >= 1

\* (mutant) the generator goes on to persist what it has when it is closed
AfterAbandonPersist == "t_asst"

\* return() at a yield completes the generator: no statement after the yield runs,
\* and the for await of line 256 closes the generation stream
AfterAbandon == "done"

\* the consumer breaks out of its loop: return() on the suspended generator
StreamAbandon(p) ==
    /\ Suspended(p)
    /\ op' = [op EXCEPT ![p].pc = AfterAbandon, ![p].outcome = "abandoned",
                        ![p].ctx = "none", ![p].hist = NoRef]
    /\ UNCHANGED <<convs, messages, cache, heap, nextConv, nextMsg, nextRef, opCount,
                   faults, purged, warned, gone, genVars, libVars>>

CancelNext ==
    \/ Next
    \/ \E p \in Procs : StreamAbandon(p)

SpecCancel == Init /\ [][CancelNext]_vars

----------------------------------------------------------------------------
(* The HTTP client of ChatController.streamMessage goes away *)

\* the connection of a stream request in progress is closed by the client;
\* streamMessage registers no close listener and res.write on a closed response
\* does not throw, so nothing in the controller or the service reads this
ClientDisconnect(p) ==
    /\ op[p].kind = "stream"
    /\ ~Free(p)
    /\ op[p].id \notin gone
    /\ gone' = gone \cup {op[p].id}
    /\ UNCHANGED <<convs, messages, cache, heap, nextConv, nextMsg, nextRef, op, opCount,
                   faults, purged, warned, genVars, libVars>>

DisconnectNext ==
    \/ Next
    \/ \E p \in Procs : ClientDisconnect(p)

SpecDisconnect == Init /\ [][DisconnectNext]_vars

----------------------------------------------------------------------------
(* sendMessage on a conversation whose messages are in the store only *)

\* numbers of messages the conversation holds when the process starts
StoredCounts == {0, HistoryLimit - 1, HistoryLimit}

\* a message persisted by an earlier process: turns alternate, the content of the
\* i-th is i
StoredMessage(i) ==
    MessageDoc(i, 1, IF i % 2 = 1 THEN "user" ELSE "assistant", <<i>>, 0)

\* The process has just started: the store holds conversation 1 of s1 with its
\* messages, and conversationCache (line 25) is empty.
WindowInit ==
    /\ \E m \in StoredCounts :
         /\ messages = [i \in 1..m |-> StoredMessage(i)]
         /\ nextMsg = m + 1
         /\ convs = [c \in ConvIds |->
                        IF c = 1 THEN [NewConversationDoc("s1") EXCEPT !.messageCount = m]
                                 ELSE NoDoc]
    /\ cache = [c \in ConvIds |-> NoRef]
    /\ heap = [r \in Refs |-> <<>>]
    /\ nextConv = 2
    /\ nextRef = 1
    /\ op = [p \in Procs |-> IdleOp]
    /\ opCount = 0
    /\ purged = {}
    /\ faults = 0
    /\ warned = {}
    /\ gone = {}
    /\ configured = TRUE
    /\ GenIdle
    /\ LibIdle

SendStep(p) ==
    \/ StartSend(p) \/ SendFind(p) \/ SendCreate(p) \/ SendUser(p) \/ SendSearch(p)
    \/ HistCheck(p) \/ HistLoad(p)
    \/ SendGen(p) \/ SendAsst(p) \/ SendInc(p)

WindowNext == (\E p \in Procs : SendStep(p)) /\ UNCHANGED <<genVars, libVars>>

SpecWindow == WindowInit /\ [][WindowNext]_vars

----------------------------------------------------------------------------
(* Requests served one after the other *)

\* every call completes before the next one is made
SeqNext ==
    /\ Next
    /\ Cardinality({p \in Procs : op'[p].pc \notin {"idle", "done"}}) <= 1

SpecSeq == Init /\ [][SeqNext]_vars

----------------------------------------------------------------------------
(* AiService.response over withRateLimitAndRetry and the limiter *)

maxConcurrent == 2
highWater == 20
maxRetries == 5

\* what one call of openai.responses.create does
Answers == {"ok", "empty", "e429", "e401", "e403", "e500", "network"}

\* what fn throws: the provider's error, or OpenAiInvalidResponseException for
\* empty output_text (ai.service.ts lines 107-111)
Thrown(a) == IF a = "empty" THEN "OpenAiInvalidResponseException" ELSE a

\* err?.status ?? err?.response?.status; OpenAiInvalidResponseException is a
\* BadGatewayException, whose status is 502
StatusOf(e) ==
    CASE e = "e429" -> 429
      [] e = "e401" -> 401
      [] e = "e403" -> 403
      [] e = "e500" -> 500
      [] e = "OpenAiInvalidResponseException" -> 502
      [] OTHER -> NoStatus

\* (mutant) gives up one retry early
ShouldGiveUpEarly(status, attempt) == status # 429 \/ attempt >= maxRetries - 1

\* (mutant) allows one retry more
ShouldGiveUpLate(status, attempt) == status # 429 \/ attempt > maxRetries

\* (mutant) server errors are retried as well, as in the superseded client
ShouldGiveUpRetry5xx(status, attempt) ==
    (status # 429 /\ status < 500) \/ attempt >= maxRetries

\* ai.rate-limit line 27: if (status !== 429 || attempt >= maxRetries) throw err
ShouldGiveUp(status, attempt) == status # 429 \/ attempt >= maxRetries

\* ai.service.ts lines 121-143: the catch of response
ResponseCatch(status) ==
    IF status = 429 THEN "OpenAiRateLimitException"
    ELSE IF status = 401 \/ status = 403 THEN "OpenAiMisconfiguredException"
    ELSE "OpenAiUnavailableException"

\* the rejection of a job the limiter drops (strategy OVERFLOW)
DroppedJobError == "BottleneckError"

\* ai.rate-limit lines 17-18 and 38-52: limiter.schedule(...) is returned without
\* await, so its rejection settles the returned promise directly and never enters
\* the catch block that would turn an overflow into a status 429 error
WrapperRejection(e) == e

\* slots of the limiter in use: a job holds its slot while it runs, sleeps included
Running ==
    bgRunning + Cardinality({c \in GCalls : gcall[c].pc \in {"ready", "sleeping"}})

\* (mutant) the queue is unbounded
ReachedHWMNever == FALSE

\* the limiter drops a new job when the queue is at highWater and no slot is free
ReachedHWM == Len(queue) = highWater /\ ~(Running < maxConcurrent)

\* a slot was freed: the head of the queue, if any, takes it
Drained(calls1, bg1) ==
    IF queue = <<>>
    THEN /\ gcall' = calls1 /\ bgRunning' = bg1 /\ queue' = queue
    ELSE /\ queue' = Tail(queue)
         /\ IF Head(queue) = Anonymous
            THEN gcall' = calls1 /\ bgRunning' = bg1 + 1
            ELSE /\ gcall' = [calls1 EXCEPT ![Head(queue)].pc = "ready"]
                 /\ bgRunning' = bg1

\* response, lines 89-92 and 101: the placeholder without a key, else the job is
\* handed to limiter.schedule
GenSubmit(c) ==
    /\ gcall[c].pc = "idle"
    /\ IF ~configured
       THEN /\ gcall' = [gcall EXCEPT ![c].pc = "done", ![c].result = "placeholder"]
            /\ UNCHANGED <<queue, bgRunning>>
       ELSE IF Running < maxConcurrent
       THEN /\ gcall' = [gcall EXCEPT ![c].pc = "ready"]
            /\ UNCHANGED <<queue, bgRunning>>
       ELSE IF ReachedHWM
       THEN /\ gcall' = [gcall EXCEPT ![c].pc = "done", ![c].dropped = TRUE,
                            ![c].result = ResponseCatch(StatusOf(
                                              WrapperRejection(DroppedJobError)))]
            /\ UNCHANGED <<queue, bgRunning>>
       ELSE /\ queue' = Append(queue, c)
            /\ gcall' = [gcall EXCEPT ![c].pc = "queued"]
            /\ UNCHANGED bgRunning
    /\ UNCHANGED <<configured, scall, chatVars, libVars>>

\* ai.rate-limit lines 21-35: one attempt of the job
GenAttempt(c) ==
    /\ gcall[c].pc = "ready"
    /\ \E a \in Answers :
         LET made == [gcall EXCEPT ![c].calls = @ + 1, ![c].last = a] IN
         IF a = "ok"
         THEN Drained([made EXCEPT ![c].pc = "done", ![c].result = "ok"], bgRunning)
         ELSE IF ShouldGiveUp(StatusOf(Thrown(a)), gcall[c].attempt)
         THEN Drained([made EXCEPT ![c].pc = "done",
                          ![c].result = ResponseCatch(StatusOf(
                                            WrapperRejection(Thrown(a))))],
                      bgRunning)
         ELSE /\ gcall' = [made EXCEPT ![c].attempt = @ + 1, ![c].pc = "sleeping"]
              /\ UNCHANGED <<queue, bgRunning>>
    /\ UNCHANGED <<configured, scall, chatVars, libVars>>

\* ai.rate-limit line 34: the backoff sleep is over
GenWake(c) ==
    /\ gcall[c].pc = "sleeping"
    /\ gcall' = [gcall EXCEPT ![c].pc = "ready"]
    /\ UNCHANGED <<queue, bgRunning, configured, scall, chatVars, libVars>>

\* a generate call of an unobserved caller reaches the limiter
BgSubmit ==
    /\ configured
    /\ IF Running < maxConcurrent
       THEN bgRunning' = bgRunning + 1 /\ UNCHANGED queue
       ELSE /\ ~ReachedHWM
            /\ queue' = Append(queue, Anonymous)
            /\ UNCHANGED bgRunning
    /\ UNCHANGED <<gcall, configured, scall, chatVars, libVars>>

\* the job of an unobserved caller ends
BgFinish ==
    /\ bgRunning > 0
    /\ Drained(gcall, bgRunning - 1)
    /\ UNCHANGED <<configured, scall, chatVars, libVars>>

GenNext ==
    \/ \E c \in GCalls : GenSubmit(c) \/ GenAttempt(c) \/ GenWake(c)
    \/ BgSubmit
    \/ BgFinish

SpecGen == GenInit /\ [][GenNext]_vars

----------------------------------------------------------------------------
(* AiService.stream *)

\* ai.service.ts lines 205-211: the catch of stream wraps every error alike
StreamCatch(status) == "OpenAiUnavailableException"

\* what the consumer of the stream sees for the provider's answer: a stream that
\* yields no text simply ends (lines 197-204)
StreamResult(a) ==
    IF a \in {"ok", "empty"} THEN "ok" ELSE StreamCatch(StatusOf(Thrown(a)))

\* stream, lines 173-211: the placeholder without a client, else one call of
\* openai.responses.create({stream: true}), made directly
StreamOpen(c) ==
    /\ scall[c].pc = "idle"
    /\ IF ~configured
       THEN scall' = [scall EXCEPT ![c].pc = "done", ![c].result = "placeholder"]
       ELSE \E a \in Answers :
              scall' = [scall EXCEPT ![c] = [pc |-> "done", calls |-> 1, last |-> a,
                                             result |-> StreamResult(a),
                                             busy |-> Running]]
    /\ UNCHANGED <<configured, gcall, queue, bgRunning, chatVars, libVars>>

StreamGenNext ==
    \/ \E c \in GCalls : StreamOpen(c)
    \/ BgSubmit
    \/ BgFinish

SpecStreamGen == GenInit /\ [][StreamGenNext]_vars

----------------------------------------------------------------------------
(* AiService.stream without a client: the placeholder reply, word by word *)

\* A text is a sequence of atoms: a run of characters other than the space and the
\* line feed is one atom, and so is each " " and each "\n".
Join(ws, sep) ==
    LET RECURSIVE J(_)
        J(k) == IF k = 0 THEN <<>>
                ELSE IF k = 1 THEN <<ws[1]>>
                ELSE J(k - 1) \o <<sep, ws[k]>>
    IN  J(Len(ws))

\* (mutant) split that loses the text
SplitNothing(text, sep) == <<>>

\* String.prototype.split(sep): the pieces between the separators; a text without
\* separator is one piece, and two adjacent separators give an empty piece
Split(text, sep) ==
    LET RECURSIVE S(_, _, _)
        S(k, done, cur) ==
            IF k > Len(text) THEN Append(done, cur)
            ELSE IF text[k] = sep THEN S(k + 1, Append(done, cur), <<>>)
            ELSE S(k + 1, done, Append(cur, text[k]))
    IN  S(1, <<>>, <<>>)

\* lines 232-237: the four replies (accents and inverted marks left out)
responses == <<
    <<"Hola!", "Soy", "tu", "asistente", "de", "estudios.", "Veo", "que", "tienes",
      "una", "pregunta", "interesante.", "Para", "ayudarte", "mejor,", "podrias",
      "darme", "mas", "detalles", "sobre", "el", "tema", "especifico", "del",
      "curso", "en", "el", "que", "necesitas", "ayuda?">>,
    <<"Entiendo", "tu", "duda.", "Este", "es", "un", "tema", "importante", "que",
      "muchos", "estudiantes", "encuentran", "desafiante.", "Te", "sugiero", "que",
      "revisemos", "los", "conceptos", "paso", "a", "paso.", "Por", "donde", "te",
      "gustaria", "empezar?">>,
    <<"Excelente", "pregunta!", "Esto", "demuestra", "que", "estas", "pensando",
      "criticamente", "sobre", "el", "material.", "Dejame", "darte", "una",
      "explicacion", "que", "te", "ayude", "a", "entender", "mejor", "el",
      "concepto.">>,
    <<"Gracias", "por", "compartir", "tu", "pregunta.", "Para", "darte", "la",
      "mejor", "ayuda", "posible,", "necesito", "que", "OpenAI", "este",
      "configurado.", "Por", "ahora,", "te", "recomiendo", "revisar", "el",
      "material", "del", "curso", "y", "volver", "con", "preguntas",
      "especificas.">> >>

\* line 242: `[RESPUESTA PLACEHOLDER - Implementar OpenAI]\n\n${randomResponse}`
PlaceholderContent(r) ==
    Join(<<"[RESPUESTA", "PLACEHOLDER", "-", "Implementar", "OpenAI]">>, " ")
        \o <<"\n", "\n">> \o Join(responses[r], " ")

\* lines 172-174: Math.random() picks the reply; the content is split at spaces
PlaceholderOpen ==
    /\ ph.pc = "idle"
    /\ ~configured
    /\ \E r \in 1..Len(responses) :
         ph' = [ph EXCEPT !.pc = "loop", !.words = Split(PlaceholderContent(r), " ")]
    /\ UNCHANGED <<chatVars, genVars, webVars, lib, kbVars, ov>>

\* lines 175-178: yield word + ' ', then the 50 ms timer; after the last word the
\* generator returns
PlaceholderYield ==
    /\ ph.pc = "loop"
    /\ IF Len(ph.out) < Len(ph.words)
       THEN ph' = [ph EXCEPT !.out = Append(@, ph.words[Len(ph.out) + 1] \o <<" ">>)]
       ELSE ph' = [ph EXCEPT !.pc = "returned"]
    /\ UNCHANGED <<chatVars, genVars, webVars, lib, kbVars, ov>>

PlaceholderNext == PlaceholderOpen \/ PlaceholderYield

PlaceholderInit == ChatInit({FALSE}) /\ configured = FALSE /\ GenIdle /\ LibIdle

\* the rest of the system while one call is looked at on its own
Quiet ==
    ChatInit({FALSE}) /\ configured = TRUE /\ GenIdle /\ ph = IdlePlaceholder /\ WebIdle /\ KbIdle

SpecPlaceholder == PlaceholderInit /\ [][PlaceholderNext]_vars

\* once the stream is open the consumer keeps pulling and the 50 ms timers fire
FairPlaceholder == SpecPlaceholder /\ WF_vars(PlaceholderYield)

----------------------------------------------------------------------------
(* KnowledgeService.cosineSimilarity and searchSimilar *)

MaxChunks == 3

\* scores are kept in tenths: 10 is a cosine of 1
Scale == 10

Min(a, b) == IF a < b THEN a ELSE b
Max(a, b) == IF a < b THEN b ELSE a

Dot(a, b) ==
    LET RECURSIVE D(_)
        D(k) == IF k = 0 THEN 0 ELSE D(k - 1) + a[k] * b[k]
    IN  D(Len(a))

\* Math.sqrt, rounded down; exact for the norms of the embeddings searched
Sqrt(n) == CHOOSE r \in 0..n : r * r <= n /\ (r + 1) * (r + 1) > n

\* x / y of a score, in tenths, rounded toward zero
Quotient(x, y) == IF x < 0 THEN 0 - ((Scale * (0 - x)) \div y) ELSE (Scale * x) \div y

Threw(e) == [threw |-> e]
Returned(v) == [value |-> v]
IsThrow(r) == "threw" \in DOMAIN r

\* (mutant) vectors of different lengths are compared over the shorter length
cosineSimilarityUnchecked(vecA, vecB) ==
    LET n == Min(Len(vecA), Len(vecB))
        a == SubSeq(vecA, 1, n)
        b == SubSeq(vecB, 1, n)
        magnitude == Sqrt(Dot(a, a)) * Sqrt(Dot(b, b))
    IN  Returned(IF magnitude = 0 THEN 0 ELSE Quotient(Dot(a, b), magnitude))

\* lines 156-173
cosineSimilarity(vecA, vecB) ==
    IF Len(vecA) # Len(vecB)
    THEN Threw("Error")
    ELSE LET dotProduct == Dot(vecA, vecB)
             normA == Dot(vecA, vecA)
             normB == Dot(vecB, vecB)
             magnitude == Sqrt(normA) * Sqrt(normB)
         IN  Returned(IF magnitude = 0 THEN 0 ELSE Quotient(dotProduct, magnitude))

\* line 113
DefaultLimit == 3
\* line 114, in tenths
DefaultMinScore == 5

Courses == {"c1", "c2"}

\* embeddings with cosine 1, 0.8 and 0 to the query embedding
QueryEmbedding == <<1, 0>>
Embeddings == {<<1, 0>>, <<4, 3>>, <<0, 1>>}

\* stored chunks, in the order find() returns them; content stands for the text and
\* is different for every stored chunk
ChunkDocs(n) ==
    {[courseId |-> c, chunkIndex |-> k, embedding |-> e, content |-> n] :
        c \in Courses, k \in 0..1, e \in Embeddings}

Stores ==
    UNION {{st \in [1..n -> UNION {ChunkDocs(i) : i \in 1..n}] :
               \A i \in 1..n : st[i].content = i} : n \in 0..MaxChunks}

\* the options object: given lists the keys the caller has set; the value kept
\* under a key that is not given is never read
OptionSets ==
    {[given |-> g, courseId |-> c, limit |-> l, minScore |-> m] :
        g \in SUBSET {"courseId", "limit", "minScore"},
        c \in Courses, l \in {0, 1, 2}, m \in {0, 8}}

NoOptions == [given |-> {}, courseId |-> "c1", limit |-> 0, minScore |-> 0]

Given(options, key) == key \in options.given

\* options?.key || fallback: the fallback is taken for a missing key and for 0
OrDefault(options, key, fallback) ==
    IF Given(options, key) /\ options[key] # 0 THEN options[key] ELSE fallback

\* Array.prototype.slice(0, end)
Slice(seq, end) ==
    SubSeq(seq, 1, IF end < 0 THEN Max(Len(seq) + end, 0) ELSE Min(end, Len(seq)))

\* line 142: sort((a, b) => b.score - a.score); the sort is stable, so elements of
\* equal score keep the order they had
SortByScore(seq) ==
    LET RECURSIVE Ins(_, _), Srt(_)
        Ins(done, x) ==
            IF done = <<>> THEN <<x>>
            ELSE IF done[Len(done)].score >= x.score THEN Append(done, x)
            ELSE Append(Ins(SubSeq(done, 1, Len(done) - 1), x), done[Len(done)])
        Srt(k) == IF k = 0 THEN <<>> ELSE Ins(Srt(k - 1), seq[k])
    IN  Srt(Len(seq))

\* line 125-127: find(filter).lean()
Find(store, options) ==
    IF Given(options, "courseId")
    THEN SelectSeq(store, LAMBDA ch : ch.courseId = options["courseId"])
    ELSE store

\* lines 103-151; ready: a client is configured; embedded: createEmbedding returned
searchSimilar(store, options, ready, embedded) ==
    IF ~ready \/ ~embedded THEN Returned(<<>>)
    ELSE
    LET limit == OrDefault(options, "limit", DefaultLimit)
        minScore == OrDefault(options, "minScore", DefaultMinScore)
        chunks == Find(store, options)
        scores == [i \in 1..Len(chunks) |->
                      cosineSimilarity(QueryEmbedding, chunks[i].embedding)]
    IN  IF \E i \in 1..Len(chunks) : IsThrow(scores[i])
        THEN Threw("Error")
        ELSE LET scored == [i \in 1..Len(chunks) |->
                               [content |-> chunks[i].content,
                                courseId |-> chunks[i].courseId,
                                score |-> scores[i].value]]
                 kept == SelectSeq(scored, LAMBDA ch : ch.score >= minScore)
             IN  Returned(Slice(SortByScore(kept), limit))

SearchCall(st, o, ready, embedded) ==
    [fn |-> "searchSimilar", pc |-> "called", store |-> st, options |-> o,
     ready |-> ready, embedded |-> embedded]

\* every store and every options object with a working client, and the two
\* degraded cases over one store
SearchInit ==
    /\ Quiet
    /\ \/ \E st \in Stores, o \in OptionSets : lib = SearchCall(st, o, TRUE, TRUE)
       \/ \E st \in {x \in Stores : Len(x) = 1}, ready \in BOOLEAN :
             lib = SearchCall(st, NoOptions, ready, ~ready)

SearchReturn ==
    /\ lib.fn = "searchSimilar" /\ lib.pc = "called"
    /\ lib' = [pc |-> "returned", fn |-> lib.fn, store |-> lib.store,
               options |-> lib.options, ready |-> lib.ready, embedded |-> lib.embedded,
               result |-> searchSimilar(lib.store, lib.options, lib.ready, lib.embedded)]
    /\ UNCHANGED <<chatVars, genVars, webVars, ph, kbVars, ov>>

SpecSearch == SearchInit /\ [][SearchReturn]_vars

\* vectors of up to MaxDim components
MaxDim == 2
Vectors == UNION {[1..n -> {0 - 1, 0, 1}] : n \in 0..MaxDim}

CosineInit ==
    /\ Quiet
    /\ \E a \in Vectors, b \in Vectors :
         lib = [fn |-> "cosineSimilarity", pc |-> "called", vecA |-> a, vecB |-> b]

CosineReturn ==
    /\ lib.fn = "cosineSimilarity" /\ lib.pc = "called"
    /\ lib' = [fn |-> lib.fn, pc |-> "returned", vecA |-> lib.vecA, vecB |-> lib.vecB,
               result |-> cosineSimilarity(lib.vecA, lib.vecB)]
    /\ UNCHANGED <<chatVars, genVars, webVars, ph, kbVars, ov>>

SpecCosine == CosineInit /\ [][CosineReturn]_vars

----------------------------------------------------------------------------
(* KnowledgeService.splitIntoChunks *)

MaxTextLen == 5
MaxChunkSize == 5

\* a text is a sequence of characters: a letter, a sentence terminator, a blank
Chars == {"a", ".", " "}
IsSpace(ch) == ch = " "
IsTerminator(ch) == ch \in {".", "!", "?"}

Texts5 == UNION {[1..n -> Chars] : n \in 0..MaxTextLen}

\* String.prototype.trim
Trim(str) ==
    LET keep == {k \in 1..Len(str) : ~IsSpace(str[k])}
    IN  IF keep = {} THEN <<>>
        ELSE SubSeq(str, CHOOSE k \in keep : \A j \in keep : k <= j,
                         CHOOSE k \in keep : \A j \in keep : k >= j)

\* the end of the run of whitespace that starts at position k
RunEnd(text, k) ==
    CHOOSE e \in k..Len(text) :
        /\ \A j \in k..e : IsSpace(text[j])
        /\ e = Len(text) \/ ~IsSpace(text[e + 1])

\* line 179: text.split(/(?<=[.!?])\s+/): the text is cut at every run of whitespace
\* that follows a terminator, and the run is dropped
SplitSentences(text) ==
    LET RECURSIVE S(_, _, _)
        S(k, done, cur) ==
            IF k > Len(text) THEN Append(done, cur)
            ELSE IF IsSpace(text[k]) /\ k > 1 /\ IsTerminator(text[k - 1])
                 THEN S(RunEnd(text, k) + 1, Append(done, cur), <<>>)
                 ELSE S(k + 1, done, Append(cur, text[k]))
    IN  S(1, <<>>, <<>>)

\* lines 184-189: one turn of the loop
NextSentence(st, sentence, maxChunkSize) ==
    IF Len(st.currentChunk \o sentence) > maxChunkSize /\ st.currentChunk # <<>>
    THEN [chunks |-> Append(st.chunks, Trim(st.currentChunk)), currentChunk |-> sentence]
    ELSE [st EXCEPT !.currentChunk =
              @ \o (IF @ # <<>> THEN <<" ">> ELSE <<>>) \o sentence]

\* lines 178-197
splitIntoChunks(text, maxChunkSize) ==
    LET sentences == SplitSentences(text)
        RECURSIVE Loop(_)
        Loop(k) == IF k = 0 THEN [chunks |-> <<>>, currentChunk |-> <<>>]
                   ELSE NextSentence(Loop(k - 1), sentences[k], maxChunkSize)
        end == Loop(Len(sentences))
    IN  IF end.currentChunk # <<>>
        THEN Append(end.chunks, Trim(end.currentChunk))
        ELSE end.chunks

ChunkInit ==
    /\ Quiet
    /\ \E t \in Texts5, sz \in 1..MaxChunkSize :
         lib = [fn |-> "splitIntoChunks", pc |-> "called", text |-> t, maxChunkSize |-> sz]

ChunkReturn ==
    /\ lib.fn = "splitIntoChunks" /\ lib.pc = "called"
    /\ lib' = [fn |-> lib.fn, pc |-> "returned", text |-> lib.text,
               maxChunkSize |-> lib.maxChunkSize,
               result |-> splitIntoChunks(lib.text, lib.maxChunkSize)]
    /\ UNCHANGED <<chatVars, genVars, webVars, ph, kbVars, ov>>

SpecChunk == ChunkInit /\ [][ChunkReturn]_vars

----------------------------------------------------------------------------
(* KnowledgeService.indexCourseContent and deleteCourseChunks *)

\* line 73
batchSize == 5

MaxRuns == 2
MaxIndexFaults == 2
MaxIndexChunks == 6

\* the number of chunks splitIntoChunks makes of the content: none, one, and one
\* more than a batch
ContentSizes == {0, 1, MaxIndexChunks}

\* a chunk record; run r writes at most one record for chunk k, so <<r, k>> stands
\* for its _id
ChunkDoc(c, k, r) ==
    [id |-> <<r, k>>, courseId |-> c, chunkIndex |-> k, content |-> k, run |-> r]

\* chunks that were in the collection before the first run: one of each course
OldChunks == {ChunkDoc("c1", 7, 0), ChunkDoc("c2", 0, 0)}

KbInit ==
    /\ ChatInit({FALSE}) /\ GenIdle /\ ph = IdlePlaceholder /\ WebIdle /\ lib = NoCall
    /\ configured \in BOOLEAN
    /\ chunkStore \in {{}, OldChunks}
    /\ ix = NoRun
    /\ ov = NoOverlap

OfCourse(store, c) == {d \in store : d.courseId = c}

\* what a chunk record says, without its _id and without the run that wrote it
Facts(store) ==
    {[courseId |-> d.courseId, chunkIndex |-> d.chunkIndex, content |-> d.content] :
        d \in store}

\* (mutant) deleteMany that removes nothing
DeleteNone(store, c) == store

\* lines 219-221: deleteMany({courseId})
DeleteMany(store, c) == store \ OfCourse(store, c)

\* a store or embedding call of the run fails
IndexFault == ix.faults < MaxIndexFaults

Batch(i, n) == {k \in i..(i + batchSize - 1) : k < n}

\* lines 74-78: the loop test, then every chunk of the batch calls createEmbedding
StartBatch(run, i, store) ==
    IF i < run.n
    THEN [run EXCEPT !.i = i,
                     !.status = [k \in DOMAIN run.status |->
                                    IF k - 1 \in Batch(i, run.n) THEN "embedding"
                                    ELSE run.status[k]]]
    ELSE [run EXCEPT !.i = i, !.pc = "returned", !.result = [value |-> run.processed],
                     !.after = Facts(store)]

\* line 77: Promise.all settles when every chunk of the batch has settled
Settled(run) ==
    \A k \in Batch(run.i, run.n) : run.status[k + 1] \in {"created", "failed"}

AfterChunk(run, store) ==
    IF Settled(run) THEN StartBatch(run, run.i + batchSize, store) ELSE run

\* lines 57-66: the call; without a client it throws before touching the store
IndexStart ==
    /\ ix.pc \in {"idle", "returned", "rejected"}
    /\ ix.runs < MaxRuns
    /\ \E c \in Courses, n \in ContentSizes :
         ix' = IF ~configured
               THEN [ix EXCEPT !.pc = "rejected", !.runs = @ + 1, !.courseId = c, !.n = n,
                               !.result = [threw |-> "Error"], !.made = {},
                               !.processed = 0, !.status = [k \in 1..n |-> "waiting"]]
               ELSE [ix EXCEPT !.pc = "deleting", !.runs = @ + 1, !.courseId = c, !.n = n,
                               !.i = 0, !.status = [k \in 1..n |-> "waiting"],
                               !.processed = 0, !.made = {}, !.before = ix.after,
                               !.input = <<ix.courseId, ix.n, ix.pc, ix.processed>>]
    /\ UNCHANGED <<chatVars, genVars, webVars, ph, lib, ov, chunkStore>>

\* lines 66-78: deleteCourseChunks, splitIntoChunks, and the first batch
IndexDelete ==
    /\ ix.pc = "deleting"
    /\ \/ /\ chunkStore' = DeleteMany(chunkStore, ix.courseId)
          /\ ix' = StartBatch([ix EXCEPT !.pc = "batch"], 0, chunkStore')
       \/ /\ IndexFault
          /\ ix' = [ix EXCEPT !.pc = "rejected", !.faults = @ + 1,
                              !.result = [threw |-> "MongoError"]]
          /\ UNCHANGED chunkStore
    /\ UNCHANGED <<chatVars, genVars, webVars, ph, lib, ov>>

\* (mutant) no try/catch around a chunk: the failure rejects Promise.all and the run
ChunkCatchNothing(run, k, store) ==
    [run EXCEPT !.pc = "rejected", !.faults = @ + 1, !.status[k + 1] = "failed",
                !.result = [threw |-> "Error"]]

\* lines 93-95: the failure of a chunk is logged and the chunk is given up
ChunkCatch(run, k, store) ==
    AfterChunk([run EXCEPT !.faults = @ + 1, !.status[k + 1] = "failed"], store)

\* line 80: createEmbedding for chunk k returns or throws
ChunkEmbed(k) ==
    /\ ix.pc = "batch"
    /\ k \in Batch(ix.i, ix.n)
    /\ ix.status[k + 1] = "embedding"
    /\ \/ ix' = [ix EXCEPT !.status[k + 1] = "creating"]
       \/ IndexFault /\ ix' = ChunkCatch(ix, k, chunkStore)
    /\ UNCHANGED <<chatVars, genVars, webVars, ph, lib, ov, chunkStore>>

\* (mutant) the chunk is numbered by its place in its batch
ChunkIndexInBatch(i, index) == index

\* line 88: chunkIndex: i + index, for the chunk at place index of the batch that
\* starts at i
ChunkIndex(i, index) == i + index

\* the record written for chunk k of run, which is batch[k - i]
NewChunk(run, k, r) ==
    [ChunkDoc(run.courseId, k, r) EXCEPT !.chunkIndex = ChunkIndex(run.i, k - run.i)]

\* lines 82-92: knowledgeChunkModel.create for chunk k, then processed++
ChunkCreate(k) ==
    /\ ix.pc = "batch"
    /\ k \in Batch(ix.i, ix.n)
    /\ ix.status[k + 1] = "creating"
    /\ \/ /\ chunkStore' = chunkStore \cup {NewChunk(ix, k, ix.runs)}
          /\ ix' = AfterChunk([ix EXCEPT !.status[k + 1] = "created",
                                         !.processed = @ + 1,
                                         !.made = @ \cup {<<ix.runs, k>>}],
                                chunkStore')
       \/ /\ IndexFault
          /\ UNCHANGED chunkStore
          /\ ix' = ChunkCatch(ix, k, chunkStore)
    /\ UNCHANGED <<chatVars, genVars, webVars, ph, lib, ov>>

\* lines 218-223: deleteCourseChunks called on its own, between runs
DeleteCourseChunks ==
    /\ ix.pc \in {"idle", "returned", "rejected"}
    /\ ix.deletes = 0
    /\ \E c \in Courses :
         \/ /\ chunkStore' = DeleteMany(chunkStore, c)
            /\ ix' = [ix EXCEPT !.deletes = @ + 1, !.pc = "idle", !.courseId = c,
                         !.result = [value |-> Cardinality(OfCourse(chunkStore, c))],
                         !.after = Facts(chunkStore')]
         \/ /\ IndexFault
            /\ UNCHANGED chunkStore
            /\ ix' = [ix EXCEPT !.deletes = @ + 1, !.pc = "idle", !.courseId = c,
                         !.faults = @ + 1, !.result = [threw |-> "MongoError"]]
    /\ UNCHANGED <<chatVars, genVars, webVars, ph, lib, ov>>

IndexNext ==
    \/ IndexStart
    \/ IndexDelete
    \/ \E k \in 0..(MaxIndexChunks - 1) : ChunkEmbed(k)
    \/ \E k \in 0..(MaxIndexChunks - 1) : ChunkCreate(k)
    \/ DeleteCourseChunks

SpecIndex == KbInit /\ [][IndexNext]_vars

----------------------------------------------------------------------------
(* Two runs of KnowledgeService.indexCourseContent that may overlap in time *)

\* the number of chunks of the content of an overlapping run
OverlapSizes == {1, 2}

OverlapInit ==
    /\ ChatInit({FALSE}) /\ GenIdle /\ ph = IdlePlaceholder /\ WebIdle /\ lib = NoCall
    /\ configured = TRUE
    /\ chunkStore \in {{}, OldChunks}
    /\ ix = NoRun
    /\ ov = NoOverlap

\* lines 57-66: the call of run r; calls are independent, nothing makes one wait
\* for another
OvStart(r) ==
    /\ ov[r].pc = "idle"
    /\ \E c \in Courses, n \in OverlapSizes :
         ov' = [ov EXCEPT ![r] = [NoRun EXCEPT !.pc = "deleting", !.runs = r,
                                     !.courseId = c, !.n = n,
                                     !.status = [k \in 1..n |-> "waiting"]]]
    /\ UNCHANGED <<chatVars, genVars, webVars, ph, lib, kbVars>>

\* lines 66-78 of run r: deleteCourseChunks, splitIntoChunks, and the first batch
OvDelete(r) ==
    /\ ov[r].pc = "deleting"
    /\ chunkStore' = DeleteMany(chunkStore, ov[r].courseId)
    /\ ov' = [ov EXCEPT ![r] = StartBatch([ov[r] EXCEPT !.pc = "batch"], 0, chunkStore')]
    /\ UNCHANGED <<chatVars, genVars, webVars, ph, lib, ix>>

\* line 80 of run r: createEmbedding for chunk k returns
OvEmbed(r, k) ==
    /\ ov[r].pc = "batch"
    /\ k \in Batch(ov[r].i, ov[r].n)
    /\ ov[r].status[k + 1] = "embedding"
    /\ ov' = [ov EXCEPT ![r].status[k + 1] = "creating"]
    /\ UNCHANGED <<chatVars, genVars, webVars, ph, lib, kbVars>>

\* lines 82-92 of run r: knowledgeChunkModel.create for chunk k, then processed++
OvCreate(r, k) ==
    /\ ov[r].pc = "batch"
    /\ k \in Batch(ov[r].i, ov[r].n)
    /\ ov[r].status[k + 1] = "creating"
    /\ chunkStore' = chunkStore \cup {NewChunk(ov[r], k, r)}
    /\ ov' = [ov EXCEPT ![r] = AfterChunk([ov[r] EXCEPT !.status[k + 1] = "created",
                                                        !.processed = @ + 1,
                                                        !.made = @ \cup {<<r, k>>}],
                                          chunkStore')]
    /\ UNCHANGED <<chatVars, genVars, webVars, ph, lib, ix>>

OverlapNext ==
    \E r \in OvRuns :
        \/ OvStart(r)
        \/ OvDelete(r)
        \/ \E k \in 0..1 : OvEmbed(r, k)
        \/ \E k \in 0..1 : OvCreate(r, k)

SpecOverlap == OverlapInit /\ [][OverlapNext]_vars

----------------------------------------------------------------------------
(* ChatService.getHistory for one conversation *)

MaxStored == 5
MaxPage == 4
MaxPageSize == 3

\* cursor.skip(n)
Skip(seq, n) == SubSeq(seq, n + 1, Len(seq))

\* Math.ceil(a / b) for b > 0
Ceil(a, b) == (a + b - 1) \div b

\* (mutant) the page number is taken as the number of pages to skip
SkipOfNext(page, limit) == page * limit

\* line 144
SkipOf(page, limit) == (page - 1) * limit

\* lines 134-166: the branch with a conversationId; null when findOne matches
\* nothing
getHistory(studentId, conversationId, page, limit) ==
    LET conversation == FindOwned(ObjectId(conversationId), studentId)
    IN  IF conversation = NoConv
        THEN [found |-> FALSE]
        ELSE LET total == Len(MessagesOf(conversation))
             IN  [found |-> TRUE,
                  conversation |-> conversation,
                  messages |-> Take(Skip(MessagesOf(conversation), SkipOf(page, limit)),
                                    limit),
                  pagination |-> [page |-> page, limit |-> limit, total |-> total,
                                  totalPages |-> Ceil(total, limit)]]

\* the messages of conversation 1 (of s1) and conversation 2 (of s2), in the order
\* they were created
StoredHistories ==
    UNION {{[i \in 1..n |-> MessageDoc(i, f[i], IF i % 2 = 1 THEN "user" ELSE "assistant",
                                       <<i>>, 0)] : f \in [1..n -> {1, 2}]} :
              n \in 0..MaxStored}

HistoryInit ==
    /\ \E h \in StoredHistories :
         /\ messages = h
         /\ nextMsg = Len(h) + 1
    /\ convs = [c \in ConvIds |->
                   IF c = 1 THEN NewConversationDoc("s1")
                   ELSE IF c = 2 THEN NewConversationDoc("s2") ELSE NoDoc]
    /\ cache = [c \in ConvIds |-> NoRef]
    /\ heap = [r \in Refs |-> <<>>]
    /\ nextConv = 3
    /\ nextRef = 1
    /\ op = [p \in Procs |-> IdleOp]
    /\ opCount = 0
    /\ purged = {}
    /\ faults = 0
    /\ warned = {}
    /\ gone = {}
    /\ configured = TRUE
    /\ GenIdle
    /\ ph = IdlePlaceholder /\ WebIdle
    /\ KbIdle
    /\ \E s \in Students, c \in {1, 2, UpperCase(1), UnknownId},
          pg \in 1..MaxPage, l \in 1..MaxPageSize :
         lib = [fn |-> "getHistory", pc |-> "called", studentId |-> s,
                conversationId |-> c, page |-> pg, limit |-> l]

HistoryReturn ==
    /\ lib.fn = "getHistory" /\ lib.pc = "called"
    /\ lib' = [fn |-> lib.fn, pc |-> "returned", studentId |-> lib.studentId,
               conversationId |-> lib.conversationId, page |-> lib.page,
               limit |-> lib.limit,
               result |-> getHistory(lib.studentId, lib.conversationId, lib.page,
                                     lib.limit)]
    /\ UNCHANGED <<chatVars, genVars, webVars, ph, kbVars, ov>>

SpecHistory == HistoryInit /\ [][HistoryReturn]_vars

----------------------------------------------------------------------------
(* The backoff timers of withRateLimitAndRetry *)

\* ai.rate-limit line 29: 250 * Math.pow(2, attempt)
BackoffUnit == 250

\* ai.rate-limit line 30: Math.floor(Math.random() * 250)
JitterSpan == 250

\* Math.random() returns a number r with 0 <= r < 1: its value in thousandths
RandomScale == 1000
Randoms == {0, 500, 999}

\* Math.floor(Math.random() * 250) for the random number u / RandomScale
JitterMs(u) == (u * JitterSpan) \div RandomScale

\* (mutant) the base is computed from the attempt counter after its increment
WaitMsAfterIncrement(attempt, u) == BackoffUnit * 2 ^ (attempt + 1) + JitterMs(u)

\* ai.rate-limit lines 29-31: waitMs = baseMs + jitterMs
WaitMs(attempt, u) == BackoffUnit * 2 ^ attempt + JitterMs(u)

\* what fn does in this job
BackoffAnswers == {"ok", "e429", "e500"}

BackoffInit ==
    /\ ChatInit({FALSE}) /\ GenIdle /\ configured = TRUE
    /\ ph = IdlePlaceholder /\ lib = NoCall /\ KbIdle
    /\ bo = NoBackoff
    /\ web = NoRequest

\* ai.rate-limit lines 18-19: the limiter runs the job, attempt = 0
BackoffRun ==
    /\ bo.pc = "idle"
    /\ bo' = [bo EXCEPT !.pc = "calling"]
    /\ UNCHANGED <<chatVars, genVars, ph, lib, kbVars, ov, web>>

\* ai.rate-limit lines 21-33: fn is called; on a 429 with attempts left the wait is
\* computed, attempt is incremented and the timer is started
BackoffAttempt ==
    /\ bo.pc = "calling"
    /\ \E a \in BackoffAnswers :
         LET made == [bo EXCEPT !.calls = @ + 1, !.last = a] IN
         IF a = "ok"
         THEN bo' = [made EXCEPT !.pc = "returned"]
         ELSE IF ShouldGiveUp(StatusOf(Thrown(a)), bo.attempt)
         THEN bo' = [made EXCEPT !.pc = "threw"]
         ELSE \E u \in Randoms :
                bo' = [made EXCEPT !.waits = Append(@, WaitMs(bo.attempt, u)),
                                   !.attempt = @ + 1, !.pc = "sleeping"]
    /\ UNCHANGED <<chatVars, genVars, ph, lib, kbVars, ov, web>>

\* ai.rate-limit line 34: the timer fires and the loop goes round
BackoffWake ==
    /\ bo.pc = "sleeping"
    /\ bo' = [bo EXCEPT !.pc = "calling"]
    /\ UNCHANGED <<chatVars, genVars, ph, lib, kbVars, ov, web>>

BackoffNext == BackoffRun \/ BackoffAttempt \/ BackoffWake

SpecBackoff == BackoffInit /\ [][BackoffNext]_vars

----------------------------------------------------------------------------
(* The web client: apiClient and its response interceptor (services/api.ts) *)

MaxSends == 4

\* the calls of the api object the request is made by
Urls == {"getDashboard", "getCourses", "getStats", "sendMessage", "deleteHistory"}

\* what comes back for one request that was sent: a 2xx response, an error response
\* whose body has a message, an error response without one, or no response at all
ErrorAnswers == {"e404message", "e500", "network"}

\* an error that was raised without a request having been sent
NoConfigError == "noconfig"

\* the server is up, or it keeps answering with an error
AnswersOf(server) ==
    IF server = "failing" THEN ErrorAnswers
    ELSE {"ok", NoConfigError} \cup ErrorAnswers

\* error.config: axios puts the request's config on every error of a request it sent
HasConfig(a) == a # NoConfigError

\* error.response?.data?.message, when it is a string
DataMessage(a) == IF a = "e404message" THEN "server message" ELSE "none"

\* lines 64-71: the Error the handler rejects with
RejectionMessage(a) ==
    IF DataMessage(a) # "none" THEN DataMessage(a) ELSE "Ha habido un error"

\* requests issued for this call so far, counted up to MaxSends
Counted(n) == IF n < MaxSends THEN n + 1 ELSE n

WebInit ==
    /\ ChatInit({FALSE}) /\ GenIdle /\ configured = TRUE
    /\ ph = IdlePlaceholder /\ lib = NoCall /\ KbIdle
    /\ bo = NoBackoff
    /\ web = NoRequest

\* lines 78-125: a method of api calls apiClient.get / post / patch / delete
WebCall ==
    /\ web.pc = "idle"
    /\ \E u \in Urls, sv \in {"up", "failing"} :
         web' = [web EXCEPT !.pc = "pending", !.server = sv, !.url = u, !.sent = 1]
    /\ UNCHANGED <<chatVars, genVars, ph, lib, kbVars, ov, bo>>

\* lines 50-73: the response interceptor. A response is returned; an error that
\* has a config is answered by apiClient.request(config), whose promise is what
\* the caller goes on waiting for; an error without config rejects
WebAnswer ==
    /\ web.pc = "pending"
    /\ \E a \in AnswersOf(web.server) :
         web' = IF a = "ok"
                THEN [web EXCEPT !.pc = "resolved", !.last = a, !.result = "data"]
                ELSE IF HasConfig(a)
                THEN [web EXCEPT !.last = a, !.sent = Counted(@)]
                ELSE [web EXCEPT !.pc = "rejected", !.last = a,
                                 !.result = RejectionMessage(a)]
    /\ UNCHANGED <<chatVars, genVars, ph, lib, kbVars, ov, bo>>

WebNext == WebCall \/ WebAnswer

SpecWeb == WebInit /\ [][WebNext]_vars

\* every request that was sent is answered
FairWeb == SpecWeb /\ WF_vars(WebAnswer)

----------------------------------------------------------------------------
(* Properties of the orchestrator *)

AllFree == \A p \in Procs : Free(p)

Cached(c) == cache[c] # NoRef

Active(s) == {c \in ConvIds : convs[c].exists /\ convs[c].student = s /\ convs[c].isActive}

IsTerminal(f) == f.type \in {"done", "error"}

Last(fr) == fr[Len(fr)]

MessagesBy(p, r) == SelectSeq(messages, LAMBDA m : m.op = op[p].id /\ m.role = r)

\* C1, part 1: two conversation identities never hold the same backing array.
C1_NoSharedSequence ==
    \A a, b \in ConvIds : (a # b /\ Cached(a) /\ Cached(b)) => cache[a] # cache[b]

\* C1, part 2: a step that installs, replaces or removes A's cache entry leaves the
\* entry of every other conversation B, and the contents of B's array, as they were.
C1_Frame ==
    \A a, b \in ConvIds :
        (a # b /\ cache'[a] # cache[a] /\ Cached(b))
            => /\ cache'[b] = cache[b]
               /\ heap'[cache[b]] = heap[cache[b]]

\* C1: for conversation identities A # B, installing, resetting or invalidating A's
\* cache entry never changes the contents of B's entry, and A and B never share a
\* backing sequence.
C1_CacheIsolation == [](C1_NoSharedSequence) /\ [][C1_Frame]_vars

\* C1 witness: A's entry was installed empty after B's, and B's window is not empty.
C1_Witness ==
    \E a, b \in ConvIds :
        /\ b < a /\ Cached(a) /\ Cached(b)
        /\ heap[cache[b]] # <<>>
        /\ heap[cache[a]] = <<>>

\* C2 (the claim, in the states where every call has completed): at most one
\* conversation of a student is active.
C2_OneActivePerStudent ==
    AllFree => \A s \in Students : Cardinality(Active(s)) <= 1

\* C3 (the claim as stated): the first frame of every finished stream response
\* carries conversationId, its last frame is {done} or {error}, and that is the
\* only terminal frame.
C3_FirstFrameAlways ==
    \A p \in Procs :
        (op[p].kind = "stream" /\ op[p].ended) =>
            /\ op[p].frames # <<>>
            /\ op[p].frames[1].type = "conversationId"
            /\ IsTerminal(Last(op[p].frames))
            /\ \A i \in 1..(Len(op[p].frames) - 1) : ~IsTerminal(op[p].frames[i])

\* C3 (amended): once the conversation is resolved or created the first frame
\* carries its conversationId; when resolution or creation fails the only frame is
\* {error}. In every case no frame follows a terminal frame, and a finished response
\* ends with exactly one terminal frame, {done, messageId} or {error}.
C3_StreamFraming ==
    \A p \in Procs :
        op[p].kind = "stream" =>
            LET fr == op[p].frames IN
            /\ \A i \in 1..(Len(fr) - 1) : ~IsTerminal(fr[i])
            /\ op[p].ended <=> (fr # <<>> /\ IsTerminal(Last(fr)))
            /\ op[p].conv # NoConv =>
                  /\ fr # <<>>
                  /\ fr[1].type = "conversationId"
                  /\ fr[1].value = op[p].conv
            /\ (op[p].conv = NoConv /\ fr # <<>>) =>
                  (Len(fr) = 1 /\ fr[1].type = "error")
            /\ (fr # <<>> /\ Last(fr).type = "done") =>
                  (op[p].asstMsg # NoMsg /\ Last(fr).value = op[p].asstMsg)

\* C3 witness: a response that failed after the conversation frame and a token.
C3_Witness ==
    \E p \in Procs :
        /\ op[p].kind = "stream" /\ op[p].ended
        /\ Len(op[p].frames) >= 3
        /\ op[p].frames[1].type = "conversationId"
        /\ Last(op[p].frames).type = "error"

\* C4: when the generation stream raises after k fragments, the frames written are
\* the conversation frame, the k token frames in the order of the fragments, and
\* one {error} frame; no assistant message is persisted and messageCount is not
\* incremented for that request.
C4_StreamFailure ==
    \A p \in Procs :
        (op[p].kind = "stream" /\ op[p].outcome = "OpenAiUnavailableException") =>
            LET fr == op[p].frames
                k == Len(op[p].full) IN
            /\ Len(fr) = k + 2
            /\ fr[1].type = "conversationId"
            /\ \A i \in 1..k : fr[i + 1].type = "token" /\ fr[i + 1].value = Fragment(i)
            /\ Last(fr).type = "error"
            /\ op[p].asstMsg = NoMsg
            /\ MessagesBy(p, "assistant") = <<>>
            /\ op[p].delta = 0

\* C4 witness: the stream raised after two fragments.
C4_Witness ==
    \E p \in Procs :
        /\ op[p].kind = "stream" /\ op[p].outcome = "OpenAiUnavailableException"
        /\ Len(op[p].full) = 2

----------------------------------------------------------------------------
(* Properties of the generation client *)

Finished(c) == gcall[c].pc = "done"

NonRetryable == {"empty", "e401", "e403", "e500", "network"}

\* C6: while the provider answers 429 and fewer than maxRetries + 1 attempts
\* have been made, the call reports no error and goes on to another attempt; a
\* success on attempt k + 1 after k 429 answers (k <= maxRetries) is the result
\* of the call.
C6_RetriedUntilSuccess ==
    \A c \in GCalls :
        /\ (gcall[c].last = "e429" /\ gcall[c].calls <= maxRetries)
              => /\ gcall[c].pc \in {"sleeping", "ready"}
                 /\ gcall[c].result = "none"
                 /\ gcall[c].attempt = gcall[c].calls
        /\ gcall[c].last = "ok"
              => /\ Finished(c)
                 /\ gcall[c].result = "ok"
                 /\ gcall[c].calls = gcall[c].attempt + 1
                 /\ gcall[c].calls <= maxRetries + 1

\* a call that succeeded on its last permitted attempt, after maxRetries 429s
C6_Witness ==
    \E c \in GCalls :
        /\ Finished(c)
        /\ gcall[c].result = "ok"
        /\ gcall[c].attempt = maxRetries
        /\ gcall[c].calls = maxRetries + 1

\* C7: the provider is never called more than maxRetries + 1 times for one call;
\* a call that ends on a 429 answer has made exactly maxRetries + 1 attempts and
\* fails with OpenAiRateLimitException, and that class is reported for nothing
\* but a 429 answer.
C7_RetriesExhausted ==
    \A c \in GCalls :
        /\ gcall[c].calls <= maxRetries + 1
        /\ (Finished(c) /\ gcall[c].last = "e429")
              => /\ gcall[c].calls = maxRetries + 1
                 /\ gcall[c].result = "OpenAiRateLimitException"
        /\ gcall[c].result = "OpenAiRateLimitException"
              => Finished(c) /\ gcall[c].last = "e429"

\* a call that gave up after maxRetries + 1 answers of 429
C7_Witness ==
    \E c \in GCalls :
        /\ Finished(c)
        /\ gcall[c].last = "e429"
        /\ gcall[c].calls = maxRetries + 1
        /\ gcall[c].result = "OpenAiRateLimitException"

\* C8: a call the limiter drops because its queue is full fails with
\* OpenAiRateLimitException.
C8_OverflowIsRateLimit ==
    \A c \in GCalls :
        gcall[c].dropped => gcall[c].result = "OpenAiRateLimitException"

\* C9: at most maxConcurrent jobs hold a slot, a job sleeping in backoff
\* included; the queue never holds more than highWater jobs; a call is dropped
\* at once, without waiting in the queue and without a provider call.
C9_LimiterBounds ==
    /\ Running <= maxConcurrent
    /\ Len(queue) <= highWater
    /\ \A c \in GCalls :
          /\ gcall[c].pc = "queued" <=> (\E i \in 1..Len(queue) : queue[i] = c)
          /\ gcall[c].pc = "queued" => Running = maxConcurrent
          /\ gcall[c].dropped
                => /\ Finished(c)
                   /\ gcall[c].calls = 0
                   /\ gcall[c].result # "ok"

\* both slots taken, one of them by a sleeping call, the queue full, and a call
\* dropped
C9_Witness ==
    /\ Running = maxConcurrent
    /\ Len(queue) = highWater
    /\ \E c \in GCalls : gcall[c].pc = "sleeping"
    /\ \E c \in GCalls : gcall[c].dropped

\* C10: an answer other than 429 or success ends the call with that attempt:
\* 401 and 403 as OpenAiMisconfiguredException, every other failure as
\* OpenAiUnavailableException (OpenAiInvalidResponseException allowed for an
\* empty text); when it is the first answer exactly one provider call was made.
C10_NoRetryOfOtherFailures ==
    \A c \in GCalls :
        gcall[c].last \in NonRetryable
            => /\ Finished(c)
               /\ gcall[c].calls = gcall[c].attempt + 1
               /\ gcall[c].last \in {"e401", "e403"}
                     => gcall[c].result = "OpenAiMisconfiguredException"
               /\ gcall[c].last \in {"e500", "network"}
                     => gcall[c].result = "OpenAiUnavailableException"
               /\ gcall[c].last = "empty"
                     => gcall[c].result \in {"OpenAiUnavailableException",
                                             "OpenAiInvalidResponseException"}

\* one call ended by a 401 and one by a 500, each after a single provider call
C10_Witness ==
    /\ \E c \in GCalls :
          /\ gcall[c].last = "e401" /\ gcall[c].calls = 1
          /\ gcall[c].result = "OpenAiMisconfiguredException"
    /\ \E c \in GCalls :
          /\ gcall[c].last = "e500" /\ gcall[c].calls = 1
          /\ gcall[c].result = "OpenAiUnavailableException"

----------------------------------------------------------------------------
(* Properties of the orchestrator, continued *)

InSearch(p) == op[p].pc \in {"s_search", "t_search"}

\* C17, the step: a retrieval step that fails (the warning is logged) leaves the
\* operation exactly where a retrieval without results leaves it, with empty
\* grounding context, and changes nothing else.
C17_Step ==
    \A p \in Procs :
        (InSearch(p) /\ warned' # warned /\ op'[p] # op[p]) =>
            /\ op'[p] = [op[p] EXCEPT !.ctx = RelevantContext("none"),
                                      !.pc = IF op[p].kind = "send" THEN "hist_check"
                                                                    ELSE "t_tok"]
            /\ UNCHANGED <<convs, messages, cache, heap, faults>>

\* C17, the outcome: an operation whose retrieval failed never ends in a failure
\* unless a store or generation call failed; it is not left in the retrieval step
\* and carries no grounding context.
C17_Outcome ==
    \A p \in Procs :
        op[p].id \in warned =>
            /\ ~InSearch(p)
            /\ op[p].ctx = "none"
            /\ op[p].outcome \notin {"none", "ok"} => faults > 0
            /\ op[p].pc = "done" => op[p].outcome # "none"

\* C17: in sendMessage and streamMessage a failure of the retrieval step is
\* recovered locally: the operation goes on to generation with empty grounding
\* context, as if retrieval had returned nothing, and the failure never fails the
\* operation.
C17_RetrievalRecovered == [](C17_Outcome) /\ [][C17_Step]_vars

\* a sendMessage and a stream request have both completed after their retrieval
\* step failed
C17_Witness ==
    /\ \E p \in Procs :
          /\ op[p].kind = "send" /\ op[p].id \in warned
          /\ op[p].pc = "done" /\ op[p].outcome = "ok"
    /\ \E p \in Procs :
          /\ op[p].kind = "stream" /\ op[p].id \in warned
          /\ op[p].pc = "done" /\ op[p].outcome = "ok"

----------------------------------------------------------------------------
(* Properties of the streaming generation client *)

\* C11: a streaming call gets the policy of generate: the provider is called only
\* while holding one of the limiter's slots; a call that ends on a 429 answer has
\* made maxRetries + 1 attempts and fails with OpenAiRateLimitException; 401 and
\* 403 fail with OpenAiMisconfiguredException; a stream without text fails with
\* OpenAiUnavailableException or OpenAiInvalidResponseException.
C11_StreamSamePolicy ==
    \A c \in GCalls :
        (scall[c].pc = "done" /\ scall[c].calls > 0) =>
            /\ scall[c].busy < maxConcurrent
            /\ scall[c].last = "e429"
                  => /\ scall[c].calls = maxRetries + 1
                     /\ scall[c].result = "OpenAiRateLimitException"
            /\ scall[c].last \in {"e401", "e403"}
                  => scall[c].result = "OpenAiMisconfiguredException"
            /\ scall[c].last = "empty"
                  => scall[c].result \in {"OpenAiUnavailableException",
                                          "OpenAiInvalidResponseException"}

----------------------------------------------------------------------------
(* Properties of an abandoned stream *)

TokenFrames(fr) == SelectSeq(fr, LAMBDA f : f.type = "token")

\* C12: when the consumer of streamResponse stops reading after k events and
\* before the terminal event, the fragments pulled from the generation stream are
\* the ones already delivered, nothing is raised, and no assistant message is
\* persisted and messageCount is not incremented for that request.
C12_AbandonedStream ==
    \A p \in Procs :
        op[p].outcome = "abandoned" =>
            /\ op[p].pc = "done"
            /\ Len(TokenFrames(op[p].frames)) = Len(op[p].full)
            /\ \A i \in 1..Len(op[p].frames) : ~IsTerminal(op[p].frames[i])
            /\ op[p].asstMsg = NoMsg
            /\ MessagesBy(p, "assistant") = <<>>
            /\ op[p].delta = 0

\* a stream abandoned after the conversation frame and one token, and one
\* abandoned before any event
C12_Witness ==
    /\ \E p \in Procs :
          /\ op[p].outcome = "abandoned"
          /\ Len(op[p].frames) = 2 /\ Len(op[p].full) = 1
    /\ \E p \in Procs :
          /\ op[p].outcome = "abandoned" /\ op[p].frames = <<>>

----------------------------------------------------------------------------
(* Properties of a stream whose client has disconnected *)

C13_Step ==
    \A p \in Procs :
        (op[p].id \in gone /\ op'[p].id = op[p].id) =>
            /\ op'[p].full = op[p].full
            /\ op'[p].asstMsg = op[p].asstMsg

\* C13: once the client of a stream request has disconnected, no further fragment
\* is pulled from the generation stream and no assistant message is persisted for
\* that request.
C13_DisconnectStops == [][C13_Step]_vars

----------------------------------------------------------------------------
(* Properties of the context cache *)

\* a reconstruction of c's window is in progress for p: the query of lines
\* 298-302 has been issued and has not returned
Reconstructing(p, c) == op[p].pc = "hist_load" /\ op[p].conv = c

\* C14: concurrent cache misses for one conversation identity collapse into one
\* reconstruction: at no time are two storage queries for the same conversation's
\* window in progress.
C14_SingleFlight ==
    \A c \in ConvIds :
        Cardinality({p \in Procs : Reconstructing(p, c)}) <= 1

\* the n most recent elements of s, in the order of s
MostRecent(s, n) == SubSeq(s, IF Len(s) > n THEN Len(s) - n + 1 ELSE 1, Len(s))

\* C15, the miss: the window a reconstruction installs and returns is that of the
\* min(m, 20) most recent of the conversation's m messages, in creation order.
C15_Miss ==
    \A p \in Procs :
        (op[p].pc = "hist_load" /\ op'[p].pc = "s_gen") =>
            /\ cache'[op[p].conv] = op'[p].hist
            /\ heap'[op'[p].hist] =
                  MapTurns(MostRecent(MessagesOf(op[p].conv), HistoryLimit))

\* C15, the hit: a lookup that finds an entry returns it without a storage read.
C15_Hit ==
    \A p \in Procs :
        (op[p].pc = "hist_check" /\ Cached(op[p].conv) /\ op'[p] # op[p]) =>
            /\ op'[p].pc = "s_gen"
            /\ op'[p].hist = cache[op[p].conv]

\* C15, the bound: every cached window holds at most 20 entries.
C15_Bounded ==
    \A c \in ConvIds : Cached(c) => Len(heap[cache[c]]) <= HistoryLimit

\* C15: on a cache miss the reconstructed window is the min(m, 20) most recent
\* messages in ascending creation order, it becomes the conversation's entry, a
\* later lookup returns the cached window without a storage read, and no cached
\* window holds more than 20 entries.
C15_RecentWindow == [](C15_Bounded) /\ [][C15_Miss /\ C15_Hit]_vars

----------------------------------------------------------------------------
(* Properties of startNewConversation *)

\* p's startNewConversation is the call that completed last
JustStarted(p) ==
    /\ op[p].kind = "start" /\ op[p].pc = "done" /\ op[p].outcome = "ok"
    /\ op[p].id = opCount

\* C16, the result: the returned conversation is the only active one of its
\* student, and its cache entry, shared with no other key, holds one system turn
\* with initialContext when given and nothing otherwise.
C16_Result ==
    \A p \in Procs :
        JustStarted(p) =>
            /\ op[p].conv \in ConvIds
            /\ convs[op[p].conv].exists
            /\ convs[op[p].conv].student = op[p].student
            /\ Active(op[p].student) = {op[p].conv}
            /\ Cached(op[p].conv)
            /\ heap[cache[op[p].conv]] =
                  IF op[p].context = "none"
                  THEN <<>>
                  ELSE <<[role |-> "system", content |-> <<op[p].context>>]>>
            /\ \A d \in ConvIds \ {op[p].conv} : cache[d] # cache[op[p].conv]

\* C16, the steps: the array installed is one no key held before, and no step of
\* the call changes a conversation of another student.
C16_Step ==
    \A p \in Procs :
        (op[p].kind = "start" /\ op'[p] # op[p]) =>
            /\ \A d \in ConvIds :
                  (convs[d].exists /\ convs[d].student # op[p].student)
                      => convs'[d] = convs[d]
            /\ op[p].pc = "n_create" /\ op'[p].pc = "n_deact"
                  => \A d \in ConvIds : cache[d] # cache'[op'[p].conv]

----------------------------------------------------------------------------
(* Properties of sendMessage and streamMessage, continued *)

SendFailed(p) ==
    op[p].kind = "send" /\ op[p].pc = "done" /\ op[p].outcome # "ok"

\* C18, the failing step: the step on which a sendMessage fails changes no
\* message and no conversation; a failure of the generation call rejects with the
\* generation layer's own class, a failure of a store call with
\* InternalServerErrorException.
C18_Step ==
    \A p \in Procs :
        (op[p].kind = "send" /\ ~Free(p) /\ op'[p].pc = "done"
                             /\ op'[p].outcome # "ok") =>
            /\ messages' = messages
            /\ convs' = convs
            /\ op[p].pc = "s_gen" => op'[p].outcome \in GenerationErrors
            /\ op[p].pc # "s_gen" => op'[p].outcome = "InternalServerErrorException"

\* C18, the state left behind: the call has rejected; after a generation failure
\* the user message is there and no assistant message is; messageCount was not
\* changed; a call that failed before its user message persisted nothing.
C18_Left ==
    \A p \in Procs :
        SendFailed(p) =>
            /\ op[p].outcome \in HttpExceptions
            /\ op[p].delta = 0
            /\ op[p].outcome \in GenerationErrors =>
                  /\ op[p].userMsg # NoMsg
                  /\ op[p].asstMsg = NoMsg
                  /\ MessagesBy(p, "assistant") = <<>>
                  /\ op[p].conv \notin purged => Len(MessagesBy(p, "user")) = 1
            /\ op[p].userMsg = NoMsg =>
                  /\ op[p].outcome = "InternalServerErrorException"
                  /\ MessagesBy(p, "user") = <<>>
                  /\ MessagesBy(p, "assistant") = <<>>

StreamCompleted(p) ==
    op[p].kind = "stream" /\ op[p].pc = "done" /\ op[p].outcome = "ok"

HasDone(fr) == \E i \in 1..Len(fr) : fr[i].type = "done"

\* C19, the events and the stored message of a completed stream: after the
\* conversation event come one token event per fragment, in the order the
\* fragments arrived, and then the terminal event with the id of the assistant
\* message; that message is the only assistant message of the call and its content
\* is the fragments in order.
C19_Completed ==
    \A p \in Procs :
        StreamCompleted(p) =>
            LET fr == op[p].frames
                tk == TokenFrames(fr)
            IN  /\ Len(fr) = Len(tk) + 2
                /\ fr[1].type = "conversationId"
                /\ \A i \in 1..Len(tk) : fr[i + 1] = Frame("token", Fragment(i))
                /\ op[p].full = [i \in 1..Len(tk) |-> tk[i].value]
                /\ op[p].asstMsg # NoMsg
                /\ Last(fr) = Frame("done", op[p].asstMsg)
                /\ Len(MessagesBy(p, "assistant")) <= 1
                /\ \A i \in 1..Len(messages) :
                     (messages[i].op = op[p].id /\ messages[i].role = "assistant") =>
                        /\ messages[i].id = op[p].asstMsg
                        /\ messages[i].conv = op[p].conv
                        /\ messages[i].content = [j \in 1..Len(tk) |-> tk[j].value]
                /\ op[p].conv \notin purged => Len(MessagesBy(p, "assistant")) = 1
                /\ convs[op[p].conv].exists => op[p].delta = CountIncrement
                /\ op[p].delta \in {0, CountIncrement}

\* C19, the order: the terminal event is written only by a call whose assistant
\* message was persisted before, on the step that ends the counter update, and
\* never by a call that did not complete.
C19_DoneLast ==
    \A p \in Procs :
        /\ HasDone(op[p].frames) => StreamCompleted(p)
        /\ (HasDone(op'[p].frames) /\ ~HasDone(op[p].frames)) =>
              /\ op[p].pc = "t_inc"
              /\ op[p].asstMsg # NoMsg
              /\ op[p].conv \notin purged => Len(MessagesBy(p, "assistant")) = 1
              /\ convs[op[p].conv].exists =>
                    convs'[op[p].conv].messageCount
                        = convs[op[p].conv].messageCount + CountIncrement

\* C19: when the generation stream of streamMessage is exhausted without error,
\* one token event was emitted per fragment in arrival order, exactly one assistant
\* message is persisted with the fragments in order as its content, messageCount is
\* raised by 2, and only then the terminal event carries that message's id.
C19_StreamCompletes == [](C19_Completed) /\ [][C19_DoneLast]_vars

\* a stream of two fragments has completed in a conversation that is still there
C19_Witness ==
    \E p \in Procs :
        /\ StreamCompleted(p)
        /\ Len(op[p].full) = 2
        /\ convs[op[p].conv].exists /\ op[p].delta = CountIncrement
        /\ Len(MessagesBy(p, "assistant")) = 1
        /\ Len(op[p].frames) = 4

----------------------------------------------------------------------------
(* Properties of deleteHistory *)

Deleting(p, from) == op[p].kind = "delete" /\ op[p].pc = from

Succeeded(p, from, to) ==
    Deleting(p, from) /\ op'[p].pc = to /\ op'[p].outcome \in {"none", "ok", "null"}

\* C20, not-found: a deleteHistory whose id names no conversation of the student
\* returns null, and only then; that step changes no message, no conversation and
\* no cache entry.
C20_NotFound ==
    \A p \in Procs :
        Succeeded(p, "d_find", "done") =>
            /\ op'[p].outcome = "null"
            /\ FindOwned(ObjectId(op[p].convArg), op[p].student) = NoConv
            /\ messages' = messages /\ convs' = convs /\ cache' = cache /\ heap' = heap

\* C20, found: the conversation found is the one the id names and the student
\* owns; the next step removes all of its messages and records their number; the
\* last step removes the conversation and its cache entry and returns that number.
C20_Found ==
    \A p \in Procs :
        /\ Succeeded(p, "d_find", "d_msgs") =>
              /\ op'[p].conv = ObjectId(op[p].convArg)
              /\ convs[op'[p].conv].exists
              /\ convs[op'[p].conv].student = op[p].student
        /\ Succeeded(p, "d_msgs", "d_conv") =>
              /\ \A i \in 1..Len(messages') : messages'[i].conv # op[p].conv
              /\ op'[p].deleted = Len(MessagesOf(op[p].conv))
              /\ convs' = convs /\ cache' = cache
        /\ Succeeded(p, "d_conv", "done") =>
              /\ op'[p].outcome = "ok"
              /\ op'[p].deleted = op[p].deleted
              /\ ~convs'[op[p].conv].exists
              /\ cache'[op[p].conv] = NoRef
              /\ messages' = messages

\* C20: deleteHistory(studentId, conversationId) for a conversation of that student
\* removes its messages, then the conversation, then its cache entry, and returns
\* the number of removed messages; for an unknown conversation or another
\* student's it returns null and changes no message, conversation or cache entry.
C20_DeleteHistory == [][C20_NotFound /\ C20_Found]_vars

----------------------------------------------------------------------------
(* Properties of the degraded-mode stream *)

Flatten(seqs) ==
    LET RECURSIVE F(_)
        F(k) == IF k = 0 THEN <<>> ELSE F(k - 1) \o seqs[k]
    IN  F(Len(seqs))

\* C21, what was yielded: nothing is raised; a returned stream has yielded at least
\* one fragment, one per word of the reply, and their concatenation is not empty.
C21_Fragments ==
    /\ ~ph.raised
    /\ Len(ph.out) <= Len(ph.words)
    /\ ph.pc = "returned" =>
          /\ Len(ph.out) >= 1
          /\ Len(ph.out) = Len(ph.words)
          /\ \A i \in 1..Len(ph.out) : ph.out[i] = ph.words[i] \o <<" ">>
          /\ Flatten(ph.out) # <<>>

\* C21: without provider credentials the stream yields at least one fragment, the
\* fragments concatenate to non-empty text, one fragment per word of the
\* placeholder reply, and the stream ends after finitely many fragments without
\* raising.
C21_PlaceholderStream ==
    [](C21_Fragments) /\ ((ph.pc = "loop") ~> (ph.pc = "returned"))

\* the stream has returned after more than twenty fragments
C21_Witness == ph.pc = "returned" /\ Len(ph.out) > 20

----------------------------------------------------------------------------
(* Properties of KnowledgeService.searchSimilar *)

Searched == lib.fn = "searchSimilar" /\ lib.pc = "returned" /\ lib.ready /\ lib.embedded

\* the value the caller asked for: the option when it is given, else the default
Asked(options, key, fallback) == IF Given(options, key) THEN options[key] ELSE fallback

ScoreOf(ch) == cosineSimilarity(QueryEmbedding, ch.embedding).value

\* the stored chunks the caller's options admit
Eligible(store, options) ==
    {i \in 1..Len(store) :
        /\ Given(options, "courseId") => store[i].courseId = options.courseId
        /\ ScoreOf(store[i]) >= Asked(options, "minScore", DefaultMinScore)}

\* C22: with the caller's limit and minScore (the defaults 3 and 0.5 only for an
\* omitted option), searchSimilar returns the first `limit` of the candidates of
\* the given course whose score is >= minScore, in descending order of score: no
\* score below minScore, no more than limit results, no chunk of another course.
\* (Equal scores are allowed to follow each other here; their order is C23's.)
C22_SearchSimilar ==
    Searched =>
        LET r == lib.result.value
            el == Eligible(lib.store, lib.options)
            limit == Asked(lib.options, "limit", DefaultLimit)
        IN  /\ ~IsThrow(lib.result)
            /\ Len(r) = Min(limit, Cardinality(el))
            /\ \A i \in 1..Len(r) :
                 /\ r[i].content \in el
                 /\ r[i].score = ScoreOf(lib.store[r[i].content])
                 /\ r[i].courseId = lib.store[r[i].content].courseId
                 /\ r[i].score >= Asked(lib.options, "minScore", DefaultMinScore)
                 /\ Given(lib.options, "courseId") => r[i].courseId = lib.options.courseId
            /\ \A i, j \in 1..Len(r) : i < j =>
                 /\ r[i].score >= r[j].score
                 /\ r[i].content # r[j].content
            /\ \A e \in el : \A i \in 1..Len(r) :
                 (\A j \in 1..Len(r) : r[j].content # e) => ScoreOf(lib.store[e]) <= r[i].score

\* C23: results of equal score are in ascending order of chunkIndex.
C23_TiesByChunkIndex ==
    Searched =>
        LET r == lib.result.value IN
        \A i, j \in 1..Len(r) :
            (i < j /\ r[i].score = r[j].score) =>
                lib.store[r[i].content].chunkIndex <= lib.store[r[j].content].chunkIndex

----------------------------------------------------------------------------
(* Properties of KnowledgeService.splitIntoChunks *)

Chunked == lib.fn = "splitIntoChunks" /\ lib.pc = "returned"

\* a chunk that is one sentence of the text, longer than maxChunkSize on its own
LongSentence(chunk, text, maxChunkSize) ==
    \E k \in 1..Len(SplitSentences(text)) :
        /\ Len(SplitSentences(text)[k]) > maxChunkSize
        /\ chunk = Trim(SplitSentences(text)[k])

\* C24: every chunk has length <= maxChunkSize, the blanks between its packed
\* sentences included, unless it is a single sentence longer than maxChunkSize.
C24_ChunkLength ==
    Chunked =>
        \A i \in 1..Len(lib.result) :
            \/ Len(lib.result[i]) <= lib.maxChunkSize
            \/ LongSentence(lib.result[i], lib.text, lib.maxChunkSize)

\* C25: a text of length <= maxChunkSize, the empty and the blank text included,
\* gives exactly one chunk.
C25_ShortTextOneChunk ==
    (Chunked /\ Len(lib.text) <= lib.maxChunkSize) => Len(lib.result) = 1

----------------------------------------------------------------------------
(* Properties of KnowledgeService.cosineSimilarity *)

Compared == lib.fn = "cosineSimilarity" /\ lib.pc = "returned"

IsZero(v) == \A k \in 1..Len(v) : v[k] = 0

\* C28: cosineSimilarity(a, b) fails, with no score, exactly when the lengths of a
\* and b differ; for equal lengths it returns 0 whenever a or b has norm 0, the
\* zero vectors and the empty vectors included.
C28_CosineGuards ==
    Compared =>
        /\ IsThrow(lib.result) <=> Len(lib.vecA) # Len(lib.vecB)
        /\ IsThrow(lib.result) => DOMAIN lib.result = {"threw"}
        /\ (~IsThrow(lib.result) /\ (IsZero(lib.vecA) \/ IsZero(lib.vecB))) =>
              lib.result.value = 0

\* a zero vector was compared with a non-zero vector of the same length
C28_Witness ==
    /\ Compared
    /\ Len(lib.vecA) = 2 /\ Len(lib.vecB) = 2
    /\ IsZero(lib.vecA) /\ ~IsZero(lib.vecB)
    /\ lib.result = Returned(0)

----------------------------------------------------------------------------
(* Properties of KnowledgeService.indexCourseContent *)

Indexed == ix.pc = "returned"

WrittenBy(r) == {d \in chunkStore : d.run = r}

StatusCount(st) == Cardinality({k \in 1..ix.n : ix.status[k] = st})

\* C26, the result: a run that returns has attempted every chunk, and chunksCreated
\* is the number of chunk records it has written; a run is never rejected after one
\* of its chunks failed.
C26_Result ==
    /\ Indexed =>
          /\ \A k \in 1..ix.n : ix.status[k] \in {"created", "failed"}
          /\ ix.result = [value |-> StatusCount("created")]
          /\ ix.result.value = Cardinality(WrittenBy(ix.runs))
          /\ ix.result.value + StatusCount("failed") = ix.n
    /\ ix.pc = "rejected" => \A k \in 1..ix.n : ix.status[k] = "waiting"

\* C26, the failing step: when a chunk fails, the run is not rejected, nothing is
\* written or removed, and every other chunk keeps its place or, the batch being
\* settled, the next batch is started.
C26_Step ==
    \A k \in 1..ix.n :
        (ix.pc = "batch" /\ ix.status[k] # "failed" /\ ix'.status[k] = "failed") =>
            /\ ix'.pc \in {"batch", "returned"}
            /\ chunkStore' = chunkStore
            /\ ix'.processed = ix.processed
            /\ \A j \in 1..ix.n :
                 j # k => \/ ix'.status[j] = ix.status[j]
                          \/ ix.status[j] = "waiting" /\ ix'.status[j] = "embedding"

\* C26: in indexCourseContent the failure of one chunk, in its embedding call or
\* its store write, is caught and skipped: the other chunks of the batch and of the
\* remaining batches are still attempted, the run returns without raising, and
\* chunksCreated is the number of records the run persisted.
C26_ChunkFailureSkipped == [](C26_Result) /\ [][C26_Step]_vars

\* a run of six chunks has returned; a chunk of its first batch failed and the chunk
\* of its second batch was written
C26_Witness ==
    /\ Indexed /\ ix.n = MaxIndexChunks
    /\ \E k \in 1..batchSize : ix.status[k] = "failed"
    /\ ix.status[MaxIndexChunks] = "created"
    /\ ix.result.value = Cardinality(WrittenBy(ix.runs))
    /\ ix.result.value < ix.n

OtherCourses(store, c) == {d \in store : d.courseId # c}

\* the run before this one was a run for the same course and content that returned
\* with every chunk written, and so did this one
RepeatedRun ==
    /\ Indexed /\ ix.processed = ix.n
    /\ ix.input = <<ix.courseId, ix.n, "returned", ix.n>>

\* C27, the result: when a run returns, the chunks of its course are exactly the
\* ones it wrote; after a repeated run the collection says what it said before.
C27_Replaced ==
    /\ Indexed => OfCourse(chunkStore, ix.courseId) = WrittenBy(ix.runs)
    /\ RepeatedRun => Facts(chunkStore) = ix.before

\* C27, the steps: no step of a run touches a chunk of another course, and
\* deleteCourseChunks for a course without chunks changes nothing and reports 0.
C27_Step ==
    /\ ix'.deletes = ix.deletes =>
          OtherCourses(chunkStore', ix'.courseId) = OtherCourses(chunkStore, ix'.courseId)
    /\ (ix'.deletes # ix.deletes /\ OfCourse(chunkStore, ix'.courseId) = {}) =>
          /\ chunkStore' = chunkStore
          /\ ix'.faults = ix.faults => ix'.result = [value |-> 0]

\* C27: a run of indexCourseContent replaces all chunks of its course: when it
\* completes, that course has exactly the chunks this run created and the other
\* courses have theirs unchanged; running it twice with the same input and no
\* failure leaves the chunk set of one run; deleteCourseChunks on a course without
\* chunks succeeds and changes nothing.
C27_ReplaceAll == [](C27_Replaced) /\ [][C27_Step]_vars

\* the second of two equal, failure-free runs of six chunks has returned, in a
\* collection that also holds a chunk of the other course
C27_Witness ==
    /\ RepeatedRun /\ ix.runs = 2 /\ ix.n = MaxIndexChunks
    /\ OtherCourses(chunkStore, ix.courseId) # {}
    /\ Cardinality(OfCourse(chunkStore, ix.courseId)) = MaxIndexChunks

----------------------------------------------------------------------------
(* Properties of ChatService.getHistory *)

HistoryRead == lib.fn = "getHistory" /\ lib.pc = "returned"

\* the conversation the arguments name, when the student owns it
Named == IF lib.conversationId < 0 THEN 0 - lib.conversationId ELSE lib.conversationId

Owned == Named \in ConvIds /\ convs[Named].exists /\ convs[Named].student = lib.studentId

\* pages 1..n of the conversation at the page size of the call, one after another
Pages(n) ==
    LET RECURSIVE P(_)
        P(k) == IF k = 0 THEN <<>>
                ELSE P(k - 1) \o getHistory(lib.studentId, lib.conversationId, k,
                                            lib.limit).messages
    IN  P(n)

\* C29: for a conversation of the student, page p is the messages at positions
\* (p-1)*limit+1 .. p*limit in creation order, totalPages is ceil(total/limit),
\* and pages 1..totalPages one after another are all messages of the conversation,
\* each once, in order; for an unknown conversation or another student's the
\* result is not-found, with no messages.
C29_GetHistory ==
    HistoryRead =>
        LET r == lib.result
            all == MessagesOf(Named)
        IN  /\ r.found <=> Owned
            /\ ~r.found => DOMAIN r = {"found"}
            /\ r.found =>
                  /\ r.conversation = Named
                  /\ r.pagination.total = Len(all)
                  /\ r.pagination.totalPages * lib.limit >= Len(all)
                  /\ (r.pagination.totalPages - 1) * lib.limit < Len(all)
                     \/ (Len(all) = 0 /\ r.pagination.totalPages = 0)
                  /\ \A k \in 1..Len(r.messages) :
                        r.messages[k] = all[(lib.page - 1) * lib.limit + k]
                  /\ Len(r.messages) =
                        Max(0, Min(lib.limit, Len(all) - (lib.page - 1) * lib.limit))
                  /\ Pages(r.pagination.totalPages) = all

\* the second page of a conversation of five messages, two to a page, among
\* messages of another conversation
C29_Witness ==
    /\ HistoryRead /\ lib.result.found
    /\ lib.page = 2 /\ lib.limit = 2
    /\ Len(lib.result.messages) = 2
    /\ lib.result.pagination.totalPages = 2
    /\ Len(messages) = MaxStored /\ Len(MessagesOf(Named)) = 4

----------------------------------------------------------------------------
(* Properties of the context cache, continued *)

\* the array a request holds as its history window
Held(p) == op[p].hist

\* C30: the window a caller got from getConversationHistory is never the array the
\* cache stores under a key, so nothing the caller does to its window can show in
\* a later lookup.
C30_WindowIsACopy ==
    \A p \in Procs : \A c \in ConvIds :
        Held(p) # NoRef => cache[c] # Held(p)

----------------------------------------------------------------------------
(* The prompt of a generation call and the window it is built from *)

\* ai.service.ts lines 94-98 (and 184-188): the system block, the history as it
\* was handed over, then the new user turn
Prompt(systemPrompt, history, userMessage) ==
    <<Turn("system", systemPrompt)>> \o history \o <<Turn("user", <<userMessage>>)>>

\* the request holds the window getConversationHistory returned and has not yet
\* handed it to the generation call
Holding(p) == op[p].kind \in {"send", "stream"} /\ op[p].hist # NoRef

\* the prompt the request is about to send
PromptOf(p) == Prompt(<<op[p].ctx>>, heap[op[p].hist], op[p].message)

\* the messages of conversation c that requests other than number o persisted
EarlierMessages(c, o) == SelectSeq(messages, LAMBDA m : m.conv = c /\ m.op # o)

UserTurns(s) == Len(SelectSeq(s, LAMBDA t : t.role = "user"))

\* the sendMessage / streamMessage requests that have completed with their result
CompletedTurns ==
    {op[q].id : q \in {r \in Procs : /\ op[r].kind \in {"send", "stream"}
                                      /\ op[r].pc = "done"
                                      /\ op[r].outcome = "ok"}}

\* C31: the window handed to the next generation call holds every turn the earlier
\* completed requests on the conversation persisted (the store holds fewer than 20 here, so
\* the most recent 20 are all of them): the cache entry never lags behind the
\* persisted messages.
C31_WindowCurrent ==
    \A p \in Procs :
        Holding(p) =>
            LET window == heap[op[p].hist]
                earlier == EarlierMessages(op[p].conv, op[p].id)
            IN  \A i \in DOMAIN earlier :
                    earlier[i].op \in CompletedTurns =>
                        \E j \in DOMAIN window :
                            window[j] = Turn(earlier[i].role, earlier[i].content)

\* C32: in the prompt of a request the new user turn appears once, as the last
\* turn: the history part holds no more user turns than the requests before this
\* one persisted for the conversation, so the message this request has just
\* persisted is not among them.
C32_UserTurnOnce ==
    \A p \in Procs :
        Holding(p) =>
            LET prompt == PromptOf(p) IN
            /\ prompt[Len(prompt)] = Turn("user", <<op[p].message>>)
            /\ UserTurns(prompt) <= UserTurns(EarlierMessages(op[p].conv, op[p].id)) + 1

----------------------------------------------------------------------------
(* Counters, ownership and deletion under failures and overlapping requests *)

\* a request that names or has resolved conversation c is running
InFlightOn(c) ==
    \E p \in Procs : ~Free(p) /\ (op[p].conv = c \/ ObjectId(op[p].convArg) = c)

\* C33: whenever no request is in flight for a conversation, its messageCount is
\* the number of its persisted messages, whatever requests succeeded, failed or
\* overlapped before.
C33_CountIsMessages ==
    \A c \in ConvIds :
        (convs[c].exists /\ ~InFlightOn(c)) =>
            convs[c].messageCount = Len(MessagesOf(c))

\* the student of the request that persisted message m, when that request is one
\* of the requests on record
WrittenFor(m) == {op[p].student : p \in {q \in Procs : op[q].id = m.op}}

\* C34: a sendMessage or streamMessage for student S appends messages to, and
\* raises the counter of, a conversation of S only.
C34_OwnConversationOnly ==
    /\ \A i \in DOMAIN messages :
           convs[messages[i].conv].exists =>
               \A st \in WrittenFor(messages[i]) : st = convs[messages[i].conv].student
    /\ \A p \in Procs :
           (op[p].kind \in {"send", "stream"} /\ op[p].delta > 0
              /\ convs[op[p].conv].exists) =>
               convs[op[p].conv].student = op[p].student

\* C35: in every state in which no request is running, each persisted message
\* belongs to a conversation that exists: a deleteHistory that overlapped a
\* sendMessage or streamMessage leaves no message of the deleted conversation.
C35_NoOrphanMessages ==
    AllFree =>
        \A i \in DOMAIN messages : convs[messages[i].conv].exists

\* C36: a stream response whose terminal frame is {error} has persisted no
\* assistant message, and one whose terminal frame is {done, messageId} has
\* persisted exactly one, with that id.
C36_FrameAgreesWithStore ==
    \A p \in Procs :
        (op[p].kind = "stream" /\ op[p].ended /\ ~InFlightOn(op[p].conv)) =>
            LET terminal == Last(op[p].frames) IN
            /\ terminal.type = "error" => MessagesBy(p, "assistant") = <<>>
            /\ terminal.type = "done" =>
                   \/ op[p].conv \in purged
                   \/ /\ Len(MessagesBy(p, "assistant")) = 1
                      /\ MessagesBy(p, "assistant")[1].id = terminal.value

----------------------------------------------------------------------------
(* Overlapping runs of indexCourseContent *)

\* both runs have returned and they were for the same course
BothReturned ==
    /\ \A r \in OvRuns : ov[r].pc = "returned"
    /\ ov[1].courseId = ov[2].courseId

\* the chunk records run r wrote
ChunksOf(r) == {ChunkDoc(ov[r].courseId, k, r) : k \in 0..(ov[r].n - 1)}

\* C37: once two runs for one course have both returned, the chunks of the course
\* are exactly the chunks of one of the two runs, and no two chunks of the course
\* have the same chunkIndex.
C37_OneRunSurvives ==
    BothReturned =>
        LET stored == OfCourse(chunkStore, ov[1].courseId) IN
        /\ \E r \in OvRuns : stored = ChunksOf(r)
        /\ \A d, e \in stored : d.chunkIndex = e.chunkIndex => d = e

----------------------------------------------------------------------------
(* The batches of one run of indexCourseContent *)

\* the chunks of the run whose embedding or store call has been made and has not
\* yet returned or failed
InFlight == {k \in 0..(ix.n - 1) : ix.status[k + 1] \in {"embedding", "creating"}}

Started(k) == ix.status[k + 1] # "waiting"

Done(k) == ix.status[k + 1] \in {"created", "failed"}

\* the first chunk of the batch chunk k is in
BatchStart(k) == (k \div batchSize) * batchSize

\* C38, the batches: at most 5 chunks of a run are in flight, all of one batch, and
\* a chunk is started only when every chunk of the batches before its own has
\* succeeded or failed.
C38_OneBatchAtATime ==
    /\ Cardinality(InFlight) <= batchSize
    /\ \A k, j \in InFlight : BatchStart(k) = BatchStart(j)
    /\ \A k \in 0..(ix.n - 1) :
           Started(k) => \A j \in 0..(BatchStart(k) - 1) : Done(j)

\* C38, the numbering: the chunkIndex of a persisted chunk is the position of its
\* text in the output of splitIntoChunks, and a chunk that failed has no record.
C38_IndexIsPosition ==
    /\ \A d \in chunkStore : d.chunkIndex = d.content
    /\ \A k \in 0..(ix.n - 1) :
           ix.status[k + 1] = "failed" =>
               ~\E d \in chunkStore : d.run = ix.runs /\ d.content = k

\* C38: a run of indexCourseContent processes its chunks in consecutive batches of
\* 5: at most 5 calls are in flight, no chunk of a batch is started before every
\* chunk of the batch before has succeeded or failed, and each persisted chunk
\* has the position of its text as chunkIndex, so a skipped chunk leaves a gap and
\* shifts nothing.
C38_Batches == C38_OneBatchAtATime /\ C38_IndexIsPosition

\* C38 witness: in a run of 6 chunks a chunk of the first batch failed, and the chunk
\* of the second batch is persisted with chunkIndex 5.
C38_Witness ==
    /\ ix.n = MaxIndexChunks
    /\ \E k \in 0..(batchSize - 1) : ix.status[k + 1] = "failed"
    /\ \E d \in chunkStore : d.run = ix.runs /\ d.content = batchSize
                                /\ d.chunkIndex = batchSize

----------------------------------------------------------------------------
(* The waits of the retry loop *)

RECURSIVE Sum(_)
Sum(seq) == IF seq = <<>> THEN 0 ELSE Head(seq) + Sum(Tail(seq))

\* the least wait before retry number n
LowerBound(n) == 250 * 2 ^ (n - 1)

\* C39, the counters: one job calls the provider at most maxRetries + 1 = 6 times,
\* and attempt, which counts the waits, never exceeds maxRetries.
C39_Counters ==
    /\ bo.calls <= maxRetries + 1
    /\ bo.attempt <= maxRetries
    /\ Len(bo.waits) = bo.attempt
    /\ bo.calls \in {bo.attempt, bo.attempt + 1}

\* C39, the waits: the wait before retry n is at least 250 * 2^(n-1) ms and less
\* than 250 * 2^(n-1) + 250 ms, the lower bounds and the waits themselves grow
\* strictly, and the waits of one job add up to less than 9000 ms.
C39_Waits ==
    /\ \A n \in 1..Len(bo.waits) :
           /\ LowerBound(n) <= bo.waits[n]
           /\ bo.waits[n] < LowerBound(n) + 250
    /\ \A n \in 1..(Len(bo.waits) - 1) :
           /\ LowerBound(n) < LowerBound(n + 1)
           /\ bo.waits[n] < bo.waits[n + 1]
    /\ Sum(bo.waits) < LowerBound(maxRetries + 1) - 250 + 250 * maxRetries

\* C39: with maxRetries = 5 one job makes at most 6 provider calls, the wait before
\* retry n = 1..5 is in [250 * 2^(n-1), 250 * 2^(n-1) + 250) ms, attempt never
\* exceeds maxRetries, the waits increase and their total is bounded.
C39_Backoff == C39_Counters /\ C39_Waits

\* C39 witness: the provider answered 429 six times; the fifth wait was the longest
\* the code can compute.
C39_Witness ==
    /\ bo.pc = "threw"
    /\ bo.calls = maxRetries + 1
    /\ bo.waits[maxRetries] = 4249

----------------------------------------------------------------------------
(* The retry loop of the web client *)

\* C40: a request made through the client against a server that keeps answering
\* with an error is re-issued a bounded number of times only, and so eventually
\* rejects to its caller.
C40_EventuallyRejects ==
    (web.pc = "pending" /\ web.server = "failing") ~> (web.pc = "rejected")
====
